---- MODULE Spec2Model ----
(***************************************************************************)
(* Stellar BatchPay: the batch orchestration pipeline.                     *)
(*   lib/stellar/stellar-service.ts  StellarService (constructor,          *)
(*                                   submitBatch, createPaymentBatches,    *)
(*                                   buildTransaction, submitTransaction)  *)
(*   lib/stellar/batcher.ts          createBatches                         *)
(*   lib/stellar/validator.ts        validateBatchConfig,                  *)
(*                                   validatePaymentInstruction            *)
(*                                                                         *)
(* Spec        one StellarService object and its runs of submitBatch; the  *)
(*             Ledger Client (server.loadAccount, server.submitTransaction *)
(*             and the SDK's builders) is the environment and answers      *)
(*             nondeterministically.                                       *)
(* SpecBatcher the pure function createBatches applied to bounded inputs.  *)
(***************************************************************************)
EXTENDS Integers, Sequences, FiniteSets, TLC

VARIABLES
    \* ---- the StellarService object (fields set by the constructor)
    constructed,                  \* "no" | "yes" | "threw"
    keypair,                      \* this.keypair
    network,                      \* this.network
    maxOperationsPerTransaction,  \* this.maxOperationsPerTransaction
    server,                       \* this.server (the Horizon URL)
    \* ---- one run of submitBatch (its locals and its position)
    pc,                           \* "idle" | "loadAccount" | "build" | "sign" | "inFlight" | "done" | "threw"
    instructions,                 \* the argument of submitBatch
    results,                      \* const results: PaymentResult[]
    sequenceNumber,               \* let sequenceNumber
    batches,                      \* const batches
    batchIdx,                     \* position of the for-of loop over batches (1-based)
    successCount,
    failCount,
    transaction,                  \* the transaction built for the current batch
    report,                       \* the BatchResult returned, or the error thrown
    \* ---- what the Ledger Client saw during the run (observation only)
    loadedSequence,               \* the value server.loadAccount returned
    loadCalls,                    \* calls of server.loadAccount
    submitCalls,                  \* calls of server.submitTransaction: <<batch, hash or undefined>>
    built,                        \* transactions built: <<batch, sequence, payments>>
    outcomes,                     \* per processed batch: [batch, status, via, detail, before, after]
                                  \*   via: how the outcome arose; detail: the hash reported or the
                                  \*   failure captured; before, after: sequenceNumber around it
    \* ---- harness for the pure functions
    call,                         \* the function applied and its arguments
    ret,                          \* [done |-> FALSE], or [done |-> TRUE, value |-> its result]
    \* ---- a second activation of submitBatch, waiting at one of its awaits
    suspended                     \* its `this`, its locals and what the ledger saw of it

serviceVars == <<constructed, keypair, network, maxOperationsPerTransaction, server>>
runVars == <<pc, instructions, results, sequenceNumber, batches, batchIdx,
             successCount, failCount, transaction, report>>
ledgerVars == <<loadedSequence, loadCalls, submitCalls, built, outcomes>>
fnVars == <<call, ret>>
vars == <<serviceVars, runVars, ledgerVars, fnVars, suspended>>

(***************************************************************************)
(* Bounds                                                                  *)
(***************************************************************************)
MaxLen == 3          \* longest instruction list
MaxBound == 2        \* largest small value of maxOperationsPerTransaction

(***************************************************************************)
(* JavaScript values                                                       *)
(***************************************************************************)
\* undefined / an absent property: a string no program string equals
undefined == "<undefined>"
\* null
null == "<null>"
\* a local that has not been assigned yet
Unset == "<unset>"
\* a number not assigned yet (no sequence number and no operation count is
\* negative)
UnsetNumber == -1
\* an object not assigned yet
UnsetObject == [unset |-> TRUE]

\* no second activation
NoRun == [run |-> 0]

\* a || b on strings: the empty string and undefined are falsy
OrElse(a, b) == IF a = undefined \/ a = "" THEN b ELSE a

RECURSIVE join(_, _)
\* Array.prototype.join
join(arr, sep) ==
    IF Len(arr) = 0 THEN ""
    ELSE IF Len(arr) = 1 THEN arr[1]
    ELSE arr[1] \o sep \o join(Tail(arr), sep)

\* error instanceof Error ? error.message : 'Unknown error'
\* a thrown value is [isError |-> BOOLEAN, message |-> STRING]
errorMessage(error) == IF error.isError THEN error.message ELSE "Unknown error"

(***************************************************************************)
(* Inputs                                                                  *)
(***************************************************************************)
ValidAddresses == {"GAAA", "GBBB"}
ValidIssuers == {"GISSUER"}
ValidCodes == {"USDC", "XLM"}
PositiveAmounts == {"100.50", "50.25", "100"}

PaymentA == [address |-> "GAAA", amount |-> "100.50", asset |-> "XLM"]
PaymentB == [address |-> "GBBB", amount |-> "50.25", asset |-> "USDC:GISSUER"]
BadAddress == [address |-> "INVALID_ADDRESS", amount |-> "100", asset |-> "XLM"]
BadAmount == [address |-> "GAAA", amount |-> "-100", asset |-> "XLM"]

Instructions == {PaymentA, PaymentB, BadAddress, BadAmount}

InstructionLists == UNION {[1..n -> Instructions] : n \in 0..MaxLen}

\* the ledger's per-transaction operation ceiling
MaxOperationsCeiling == 100

Configs ==
    [secretKey : {"SVALIDSECRET", "INVALID_SECRET"},
     network : {"testnet", "mainnet", "invalid"},
     maxOperationsPerTransaction : (0..MaxBound) \cup {MaxOperationsCeiling, MaxOperationsCeiling + 1}]

\* values server.loadAccount may report as the account's sequence number
SequenceValues == {0, 41}
\* values the SDK or the transport may throw
Thrown == {[isError |-> TRUE, message |-> "Network Error"],
           [isError |-> FALSE, message |-> undefined]}
\* transaction.sign throws Errors only
SignErrors == {[isError |-> TRUE, message |-> "cannot sign"]}

\* the hash of a transaction, as the ledger computes it from its content
hashOf(tx) ==
    "tx" \o ToString(tx.sequenceNumber) \o ":"
         \o join([k \in 1..Len(tx.operations) |-> tx.operations[k].destination], "+")

\* responses of server.submitTransaction to a transaction; hasCodes is FALSE
\* when result_codes or result_codes.operations is absent
Responses(tx) ==
    {[successful |-> TRUE, hash |-> hashOf(tx), hasCodes |-> FALSE, operations |-> <<>>],
     [successful |-> FALSE, hash |-> undefined, hasCodes |-> FALSE, operations |-> <<>>]}
    \cup [successful : {FALSE}, hash : {undefined}, hasCodes : {TRUE},
          operations : {<<>>, <<"op_underfunded", "op_no_trust">>}]

(***************************************************************************)
(* Validator (lib/stellar/validator.ts)                                    *)
(***************************************************************************)
validatePaymentInstruction(instruction) ==
    IF instruction.address \notin ValidAddresses
    THEN [valid |-> FALSE, error |-> "Invalid address"]
    ELSE IF instruction.amount \notin PositiveAmounts
    THEN [valid |-> FALSE, error |-> "Invalid amount"]
    ELSE IF ~(instruction.asset = "XLM"
              \/ instruction.asset \in {c \o ":" \o i : c \in ValidCodes, i \in ValidIssuers})
    THEN [valid |-> FALSE, error |-> "Invalid asset"]
    ELSE [valid |-> TRUE, error |-> undefined]

validateBatchConfig(config) ==
    IF config.secretKey # "SVALIDSECRET"
    THEN [valid |-> FALSE, error |-> "Invalid secret key"]
    ELSE IF config.network \notin {"testnet", "mainnet"}
    THEN [valid |-> FALSE, error |-> "Invalid network"]
    ELSE IF ~(config.maxOperationsPerTransaction > 0
              /\ config.maxOperationsPerTransaction <= MaxOperationsCeiling)
    THEN [valid |-> FALSE, error |-> "Invalid maxOperationsPerTransaction"]
    ELSE [valid |-> TRUE, error |-> undefined]

RECURSIVE validatePaymentInstructionsLoop(_, _, _)
\* the walk of validatePaymentInstructions over the list at position i
\* (1-based here); errors maps the 0-based index of a rejected instruction
\* to its reason
validatePaymentInstructionsLoop(instrs, i, errors) ==
    IF i > Len(instrs)
    THEN [valid |-> DOMAIN errors = {}, errors |-> errors]
    ELSE LET validation == validatePaymentInstruction(instrs[i]) IN
         IF ~validation.valid
         THEN validatePaymentInstructionsLoop(instrs, i + 1,
                  errors @@ ((i - 1) :> validation.error))
         ELSE validatePaymentInstructionsLoop(instrs, i + 1, errors)

RECURSIVE validatePaymentInstructionsLoopFirstOnly(_, _, _)
\* mutant: the walk stops at the first rejected instruction
validatePaymentInstructionsLoopFirstOnly(instrs, i, errors) ==
    IF i > Len(instrs)
    THEN [valid |-> DOMAIN errors = {}, errors |-> errors]
    ELSE LET validation == validatePaymentInstruction(instrs[i]) IN
         IF ~validation.valid
         THEN [valid |-> FALSE, errors |-> errors @@ ((i - 1) :> validation.error)]
         ELSE validatePaymentInstructionsLoopFirstOnly(instrs, i + 1, errors)

validatePaymentInstructionsFirstOnly(instrs) ==
    validatePaymentInstructionsLoopFirstOnly(instrs, 1, <<>>)

validatePaymentInstructions(instrs) == validatePaymentInstructionsLoop(instrs, 1, <<>>)

(***************************************************************************)
(* Batcher (lib/stellar/batcher.ts)                                        *)
(***************************************************************************)
RECURSIVE createBatchesLoop(_, _, _, _, _, _)
\* the for-of loop of createBatches at position i, and the final flush
createBatchesLoop(instrs, max, i, acc, currentBatch, transactionIndex) ==
    IF i > Len(instrs)
    THEN IF Len(currentBatch) > 0
         THEN Append(acc, [transactionIndex |-> transactionIndex, payments |-> currentBatch])
         ELSE acc
    ELSE LET pushed == Append(currentBatch, instrs[i]) IN
         IF Len(pushed) >= max
         THEN createBatchesLoop(instrs, max, i + 1,
                  Append(acc, [transactionIndex |-> transactionIndex, payments |-> pushed]),
                  <<>>, transactionIndex + 1)
         ELSE createBatchesLoop(instrs, max, i + 1, acc, pushed, transactionIndex)

RECURSIVE createBatchesLoopStrict(_, _, _, _, _, _)
\* mutant: the batch is closed on length > max instead of length >= max
createBatchesLoopStrict(instrs, max, i, acc, currentBatch, transactionIndex) ==
    IF i > Len(instrs)
    THEN IF Len(currentBatch) > 0
         THEN Append(acc, [transactionIndex |-> transactionIndex, payments |-> currentBatch])
         ELSE acc
    ELSE LET pushed == Append(currentBatch, instrs[i]) IN
         IF Len(pushed) > max
         THEN createBatchesLoopStrict(instrs, max, i + 1,
                  Append(acc, [transactionIndex |-> transactionIndex, payments |-> pushed]),
                  <<>>, transactionIndex + 1)
         ELSE createBatchesLoopStrict(instrs, max, i + 1, acc, pushed, transactionIndex)

createBatchesStrict(instrs, max) == createBatchesLoopStrict(instrs, max, 1, <<>>, <<>>, 0)

RECURSIVE createBatchesLoopNoFlush(_, _, _, _, _, _)
\* mutant: the remaining payments are not added as the final batch
createBatchesLoopNoFlush(instrs, max, i, acc, currentBatch, transactionIndex) ==
    IF i > Len(instrs)
    THEN acc
    ELSE LET pushed == Append(currentBatch, instrs[i]) IN
         IF Len(pushed) >= max
         THEN createBatchesLoopNoFlush(instrs, max, i + 1,
                  Append(acc, [transactionIndex |-> transactionIndex, payments |-> pushed]),
                  <<>>, transactionIndex + 1)
         ELSE createBatchesLoopNoFlush(instrs, max, i + 1, acc, pushed, transactionIndex)

createBatchesNoFlush(instrs, max) == createBatchesLoopNoFlush(instrs, max, 1, <<>>, <<>>, 0)

RECURSIVE createBatchesLoopStaleIndex(_, _, _, _, _, _)
\* mutant: transactionIndex is not incremented when a batch is closed
createBatchesLoopStaleIndex(instrs, max, i, acc, currentBatch, transactionIndex) ==
    IF i > Len(instrs)
    THEN IF Len(currentBatch) > 0
         THEN Append(acc, [transactionIndex |-> transactionIndex, payments |-> currentBatch])
         ELSE acc
    ELSE LET pushed == Append(currentBatch, instrs[i]) IN
         IF Len(pushed) >= max
         THEN createBatchesLoopStaleIndex(instrs, max, i + 1,
                  Append(acc, [transactionIndex |-> transactionIndex, payments |-> pushed]),
                  <<>>, transactionIndex)
         ELSE createBatchesLoopStaleIndex(instrs, max, i + 1, acc, pushed, transactionIndex)

createBatchesStaleIndex(instrs, max) == createBatchesLoopStaleIndex(instrs, max, 1, <<>>, <<>>, 0)

createBatches(instrs, max) == createBatchesLoop(instrs, max, 1, <<>>, <<>>, 0)

(***************************************************************************)
(* StellarService (lib/stellar/stellar-service.ts)                         *)
(***************************************************************************)
RECURSIVE createPaymentBatchesLoop(_, _, _, _, _)
\* the for-of loop of createPaymentBatches at position i, and the final flush;
\* of the Error thrown at line 131: error is its message, names the addresses
\* the message holds, positions the list positions it holds (none)
createPaymentBatchesLoop(instrs, max, i, acc, currentBatch) ==
    IF i > Len(instrs)
    THEN [threw |-> FALSE, error |-> undefined, names |-> {}, positions |-> {},
          batches |-> IF Len(currentBatch) > 0 THEN Append(acc, currentBatch) ELSE acc]
    ELSE LET validation == validatePaymentInstruction(instrs[i]) IN
         IF ~validation.valid
         THEN [threw |-> TRUE,
               error |-> "Invalid payment instruction for " \o instrs[i].address
                         \o ": " \o validation.error,
               names |-> {instrs[i].address},
               positions |-> {},
               batches |-> <<>>]
         ELSE LET pushed == Append(currentBatch, instrs[i]) IN
              IF Len(pushed) >= max
              THEN createPaymentBatchesLoop(instrs, max, i + 1, Append(acc, pushed), <<>>)
              ELSE createPaymentBatchesLoop(instrs, max, i + 1, acc, pushed)

RECURSIVE createPaymentBatchesLoopNoFlush(_, _, _, _, _)
\* mutant: the remaining payments are not pushed as the last batch
createPaymentBatchesLoopNoFlush(instrs, max, i, acc, currentBatch) ==
    IF i > Len(instrs)
    THEN [threw |-> FALSE, error |-> undefined, names |-> {}, positions |-> {}, batches |-> acc]
    ELSE LET validation == validatePaymentInstruction(instrs[i]) IN
         IF ~validation.valid
         THEN [threw |-> TRUE,
               error |-> "Invalid payment instruction for " \o instrs[i].address
                         \o ": " \o validation.error,
               names |-> {instrs[i].address},
               positions |-> {},
               batches |-> <<>>]
         ELSE LET pushed == Append(currentBatch, instrs[i]) IN
              IF Len(pushed) >= max
              THEN createPaymentBatchesLoopNoFlush(instrs, max, i + 1, Append(acc, pushed), <<>>)
              ELSE createPaymentBatchesLoopNoFlush(instrs, max, i + 1, acc, pushed)

createPaymentBatchesNoFlush(instrs, max) ==
    createPaymentBatchesLoopNoFlush(instrs, max, 1, <<>>, <<>>)

RECURSIVE createPaymentBatchesLoopStrict(_, _, _, _, _)
\* mutant: the batch is closed on length > max instead of length >= max
createPaymentBatchesLoopStrict(instrs, max, i, acc, currentBatch) ==
    IF i > Len(instrs)
    THEN [threw |-> FALSE, error |-> undefined, names |-> {}, positions |-> {},
          batches |-> IF Len(currentBatch) > 0 THEN Append(acc, currentBatch) ELSE acc]
    ELSE LET validation == validatePaymentInstruction(instrs[i]) IN
         IF ~validation.valid
         THEN [threw |-> TRUE,
               error |-> "Invalid payment instruction for " \o instrs[i].address
                         \o ": " \o validation.error,
               names |-> {instrs[i].address},
               positions |-> {},
               batches |-> <<>>]
         ELSE LET pushed == Append(currentBatch, instrs[i]) IN
              IF Len(pushed) > max
              THEN createPaymentBatchesLoopStrict(instrs, max, i + 1, Append(acc, pushed), <<>>)
              ELSE createPaymentBatchesLoopStrict(instrs, max, i + 1, acc, pushed)

createPaymentBatchesStrict(instrs, max) ==
    createPaymentBatchesLoopStrict(instrs, max, 1, <<>>, <<>>)

RECURSIVE createPaymentBatchesLoopUnvalidated(_, _, _, _, _)
\* mutant: the instructions are batched without being validated
createPaymentBatchesLoopUnvalidated(instrs, max, i, acc, currentBatch) ==
    IF i > Len(instrs)
    THEN [threw |-> FALSE, error |-> undefined, names |-> {}, positions |-> {},
          batches |-> IF Len(currentBatch) > 0 THEN Append(acc, currentBatch) ELSE acc]
    ELSE LET pushed == Append(currentBatch, instrs[i]) IN
         IF Len(pushed) >= max
         THEN createPaymentBatchesLoopUnvalidated(instrs, max, i + 1, Append(acc, pushed), <<>>)
         ELSE createPaymentBatchesLoopUnvalidated(instrs, max, i + 1, acc, pushed)

createPaymentBatchesUnvalidated(instrs, max) ==
    createPaymentBatchesLoopUnvalidated(instrs, max, 1, <<>>, <<>>)

createPaymentBatches(instrs, max) == createPaymentBatchesLoop(instrs, max, 1, <<>>, <<>>)

\* mutant: the transaction hash is recorded for the first instruction only
successResultsFirstHashOnly(batch, result) ==
    [k \in 1..Len(batch) |->
        [recipient |-> batch[k].address, amount |-> batch[k].amount,
         asset |-> batch[k].asset, status |-> "success",
         transactionHash |-> IF k = 1 THEN result.transactionHash ELSE undefined,
         error |-> undefined]]

\* the results pushed for a successful batch (lines 66-75)
successResults(batch, result) ==
    [k \in 1..Len(batch) |->
        [recipient |-> batch[k].address, amount |-> batch[k].amount,
         asset |-> batch[k].asset, status |-> "success",
         transactionHash |-> result.transactionHash, error |-> undefined]]

\* the results pushed for a failed batch (lines 79-88 and 91-100)
failedResults(batch, error) ==
    [k \in 1..Len(batch) |->
        [recipient |-> batch[k].address, amount |-> batch[k].amount,
         asset |-> batch[k].asset, status |-> "failed",
         transactionHash |-> undefined, error |-> error]]

\* mutant: the results of the batch are assigned instead of pushed
recordSuccessReplacing(batch, result, st) ==
    [results |-> successResults(batch, result),
     successCount |-> st.successCount + Len(batch),
     failCount |-> st.failCount,
     sequenceNumber |-> st.sequenceNumber + 1]

\* the locals of submitBatch after the branch result.success (lines 65-77)
recordSuccess(batch, result, st) ==
    [results |-> st.results \o successResults(batch, result),
     successCount |-> st.successCount + Len(batch),
     failCount |-> st.failCount,
     sequenceNumber |-> st.sequenceNumber + 1]

\* mutant: the sequence number is advanced for a rejected batch too
recordRejectedAdvancing(batch, result, st) ==
    [results |-> st.results \o
                 [k \in 1..Len(batch) |->
                     [recipient |-> batch[k].address, amount |-> batch[k].amount,
                      asset |-> batch[k].asset, status |-> "failed",
                      transactionHash |-> undefined,
                      error |-> OrElse(result.error, "Unknown error")]],
     successCount |-> st.successCount,
     failCount |-> st.failCount + Len(batch),
     sequenceNumber |-> st.sequenceNumber + 1]

\* the locals of submitBatch after the else branch (lines 78-89)
recordRejected(batch, result, st) ==
    [results |-> st.results \o failedResults(batch, OrElse(result.error, "Unknown error")),
     successCount |-> st.successCount,
     failCount |-> st.failCount + Len(batch),
     sequenceNumber |-> st.sequenceNumber]

\* mutant: the catch block pushes the failed results without counting them
recordCaughtUncounted(batch, error, st) ==
    [results |-> st.results \o
                 [k \in 1..Len(batch) |->
                     [recipient |-> batch[k].address, amount |-> batch[k].amount,
                      asset |-> batch[k].asset, status |-> "failed",
                      transactionHash |-> undefined, error |-> errorMessage(error)]],
     successCount |-> st.successCount,
     failCount |-> st.failCount,
     sequenceNumber |-> st.sequenceNumber]

\* the locals of submitBatch after the catch block (lines 90-101)
recordCaught(batch, error, st) ==
    [results |-> st.results \o failedResults(batch, errorMessage(error)),
     successCount |-> st.successCount,
     failCount |-> st.failCount + Len(batch),
     sequenceNumber |-> st.sequenceNumber]

\* what submitTransaction returns for a response of the server (lines 209-219)
submitTransactionResponse(response) ==
    IF response.successful
    THEN [success |-> TRUE, transactionHash |-> response.hash, error |-> undefined]
    ELSE [success |-> FALSE, transactionHash |-> undefined,
          error |-> OrElse(IF response.hasCodes THEN join(response.operations, ", ")
                           ELSE undefined,
                           "Transaction failed")]

\* what submitTransaction returns when sign or the server throws (lines 220-225)
submitTransactionCaught(error) ==
    [success |-> FALSE, transactionHash |-> undefined, error |-> errorMessage(error)]

\* the transaction buildTransaction builds (lines 157-193)
buildTransaction(payments, seq) ==
    [sequenceNumber |-> seq,
     operations |-> [k \in 1..Len(payments) |->
                        [destination |-> payments[k].address,
                         asset |-> payments[k].asset,
                         amount |-> payments[k].amount]]]

(***************************************************************************)
(* JavaScript numbers (IEEE-754 binary64), positive finite values          *)
(***************************************************************************)
\* A number is [bits, exp]: bits are its significant bits, most significant
\* first, bits[1] = 1, and exp is the binary exponent of bits[1]; all the
\* bits of zero are 0.
MantissaBits == 53

zeros(n) == [i \in 1..n |-> 0]

Zero == [bits |-> zeros(MantissaBits), exp |-> 0]

RECURSIVE binaryOf(_)
\* the bits of a natural number, most significant first, <<>> for 0
binaryOf(n) == IF n = 0 THEN <<>> ELSE Append(binaryOf(n \div 2), n % 2)

RECURSIVE addBitsFrom(_, _, _, _, _)
\* the sum of A[lo..hi], B[lo..hi] and a carry: the carry out, then the bits;
\* the lower half is added first and its carry goes into the upper half
addBitsFrom(A, B, lo, hi, carry) ==
    IF lo = hi
    THEN <<(A[lo] + B[lo] + carry) \div 2, (A[lo] + B[lo] + carry) % 2>>
    ELSE LET mid == (lo + hi) \div 2
             low == addBitsFrom(A, B, mid + 1, hi, carry)
         IN  IF low[1] = 0
             THEN addBitsFrom(A, B, lo, mid, 0) \o Tail(low)
             ELSE addBitsFrom(A, B, lo, mid, 1) \o Tail(low)

\* the sum of two bit strings of the same length, one bit longer
addBits(A, B) == addBitsFrom(A, B, 1, Len(A), 0)

\* round to nearest, ties to even: the number nearest to the value whose bits
\* are given (exp is the exponent of bits[1]); sticky tells that the value
\* has further non-zero bits after the given ones, of which there are then
\* more than MantissaBits significant ones
roundToNearestEven(bits, exp, sticky) ==
    LET ones == {i \in 1..Len(bits) : bits[i] = 1} IN
    IF ones = {} THEN Zero
    ELSE LET first == CHOOSE i \in ones : \A j \in ones : i <= j
             sig == SubSeq(bits, first, Len(bits)) \o zeros(MantissaBits + 1)
             e == exp - (first - 1)
             kept == SubSeq(sig, 1, MantissaBits)
             guard == sig[MantissaBits + 1]
             rest == sticky \/ \E i \in (MantissaBits + 2)..Len(sig) : sig[i] = 1
             up == guard = 1 /\ (rest \/ kept[MantissaBits] = 1)
             bumped == addBits(kept, zeros(MantissaBits - 1) \o <<1>>)
         IN  IF ~up THEN [bits |-> kept, exp |-> e]
             ELSE IF bumped[1] = 1
                  THEN [bits |-> SubSeq(bumped, 1, MantissaBits), exp |-> e + 1]
                  ELSE [bits |-> SubSeq(bumped, 2, MantissaBits + 1), exp |-> e]

\* a + b on numbers
numberAdd(a, b) ==
    IF a = Zero THEN b
    ELSE IF b = Zero THEN a
    ELSE LET hi == IF a.exp >= b.exp THEN a ELSE b
             lo == IF a.exp >= b.exp THEN b ELSE a
             d == hi.exp - lo.exp
         IN  roundToNearestEven(addBits(hi.bits \o zeros(d), zeros(d) \o lo.bits),
                                hi.exp + 1, FALSE)

\* the decimal texts of the amounts as a fraction n / d of naturals
decimalOf(text) ==
    CASE text = "0.1" -> [n |-> 1, d |-> 10]
      [] text = "0.2" -> [n |-> 2, d |-> 10]
      [] text = "0.3" -> [n |-> 3, d |-> 10]
      [] text = "10.5" -> [n |-> 105, d |-> 10]
      [] text = "20.25" -> [n |-> 2025, d |-> 100]
      [] text = "100" -> [n |-> 100, d |-> 1]
      [] text = "50.25" -> [n |-> 5025, d |-> 100]
      [] text = "100.50" -> [n |-> 10050, d |-> 100]

\* the long division of parseFloat yields this many bits a step
ChunkBits == 7

\* the bits of a natural number below 2^ChunkBits, all ChunkBits of them
chunkOf(n) == zeros(ChunkBits - Len(binaryOf(n))) \o binaryOf(n)

RECURSIVE fractionBits(_, _, _)
\* long division of r / d, r < d: the bits of the quotient after the sig
\* significant bits there are already, a chunk at a time, until the remainder
\* is 0 or there are at least MantissaBits + 1 significant bits
fractionBits(r, d, sig) ==
    IF r = 0 \/ sig >= MantissaBits + 1
    THEN [bits |-> <<>>, sticky |-> r # 0]
    ELSE LET chunk == (r * 2^ChunkBits) \div d
             rest == fractionBits((r * 2^ChunkBits) % d, d,
                                  IF sig > 0 THEN sig + ChunkBits
                                  ELSE Len(binaryOf(chunk)))
         IN  [bits |-> chunkOf(chunk) \o rest.bits, sticky |-> rest.sticky]

\* the number nearest to the fraction n / d of naturals
nearestNumber(n, d) ==
    LET whole == binaryOf(n \div d)
        fraction == fractionBits(n % d, d, Len(whole))
    IN  roundToNearestEven(whole \o fraction.bits, Len(whole) - 1, fraction.sticky)

\* parseFloat of a decimal text: the number nearest to the decimal value
parseFloat(text) == nearestNumber(decimalOf(text).n, decimalOf(text).d)

RECURSIVE bitsToString(_)
bitsToString(bits) ==
    IF Len(bits) = 0 THEN ""
    ELSE IF Len(bits) = 1 THEN ToString(bits[1])
    ELSE bitsToString(SubSeq(bits, 1, Len(bits) \div 2))
         \o bitsToString(SubSeq(bits, Len(bits) \div 2 + 1, Len(bits)))

\* Number.prototype.toString is one-to-one on these numbers (the shortest
\* decimal that reads back as the same number); rendered here in binary,
\* which is one-to-one as well
numberToString(x) == bitsToString(x.bits) \o "p" \o ToString(x.exp)

RECURSIVE reduceTotalAmount(_, _, _)
\* instructions.reduce((sum, inst) => sum + parseFloat(inst.amount), 0) (line 104)
reduceTotalAmount(instrs, i, sum) ==
    IF i > Len(instrs) THEN sum
    ELSE reduceTotalAmount(instrs, i + 1, numberAdd(sum, parseFloat(instrs[i].amount)))

\* the lists that pass the validation of createPaymentBatches
AcceptedLists ==
    {l \in InstructionLists : \A i \in 1..Len(l) : validatePaymentInstruction(l[i]).valid}

\* totalAmount.toString() (line 108) of every accepted list, tabulated
totalAmountOf ==
    <<>> @@ [instrs \in AcceptedLists |->
                numberToString(reduceTotalAmount(instrs, 1, Zero))]

\* the BatchResult returned (lines 106-117)
batchResult(instrs, bs, net, st) ==
    [totalRecipients |-> Len(instrs),
     totalAmount |-> totalAmountOf[instrs],
     totalTransactions |-> Len(bs),
     network |-> net,
     results |-> st.results,
     summary |-> [successful |-> st.successCount, failed |-> st.failCount]]

(***************************************************************************)
(* The object and one run at a time                                        *)
(***************************************************************************)
Init ==
    /\ constructed = "no"
    /\ keypair = Unset
    /\ network = Unset
    /\ maxOperationsPerTransaction = UnsetNumber
    /\ server = Unset
    /\ pc = "idle"
    /\ instructions = <<>>
    /\ results = <<>>
    /\ sequenceNumber = UnsetNumber
    /\ batches = <<>>
    /\ batchIdx = 0
    /\ successCount = 0
    /\ failCount = 0
    /\ transaction = UnsetObject
    /\ report = UnsetObject
    /\ loadedSequence = UnsetNumber
    /\ loadCalls = 0
    /\ submitCalls = <<>>
    /\ built = <<>>
    /\ outcomes = <<>>
    /\ call = [fn |-> "none"]
    /\ ret = [done |-> FALSE]
    /\ suspended = NoRun

\* mutant: the fields are set without looking at the validation result
ConstructorUnchecked ==
    /\ constructed = "no"
    /\ \E config \in Configs :
          /\ constructed' = "yes"
          /\ keypair' = config.secretKey
          /\ network' = config.network
          /\ maxOperationsPerTransaction' = config.maxOperationsPerTransaction
          /\ server' = IF config.network = "testnet"
                       THEN "https://horizon-testnet.stellar.org"
                       ELSE "https://horizon.stellar.org"
          /\ UNCHANGED report
    /\ UNCHANGED <<pc, instructions, results, sequenceNumber, batches, batchIdx,
                   successCount, failCount, transaction>>
    /\ UNCHANGED <<ledgerVars, fnVars, suspended>>

\* new StellarService(config) (lines 26-42)
Constructor ==
    /\ constructed = "no"
    /\ \E config \in Configs :
          LET validation == validateBatchConfig(config) IN
          IF ~validation.valid
          THEN /\ constructed' = "threw"
               /\ report' = [threw |-> TRUE, error |-> validation.error]
               /\ UNCHANGED <<keypair, network, maxOperationsPerTransaction, server>>
          ELSE /\ constructed' = "yes"
               /\ keypair' = config.secretKey
               /\ network' = config.network
               /\ maxOperationsPerTransaction' = config.maxOperationsPerTransaction
               /\ server' = IF config.network = "testnet"
                            THEN "https://horizon-testnet.stellar.org"
                            ELSE "https://horizon.stellar.org"
               /\ UNCHANGED report
    /\ UNCHANGED <<pc, instructions, results, sequenceNumber, batches, batchIdx,
                   successCount, failCount, transaction>>
    /\ UNCHANGED <<ledgerVars, fnVars, suspended>>

\* submitBatch(instructions) up to its first await (lines 47-52)
SubmitBatch ==
    /\ constructed = "yes"
    /\ pc = "idle"
    /\ \E instrs \in InstructionLists : instructions' = instrs
    /\ results' = <<>>
    /\ sequenceNumber' = UnsetNumber
    /\ batches' = <<>>
    /\ batchIdx' = 0
    /\ successCount' = 0
    /\ failCount' = 0
    /\ transaction' = UnsetObject
    /\ report' = UnsetObject
    /\ pc' = "loadAccount"
    /\ loadedSequence' = UnsetNumber
    /\ loadCalls' = 1
    /\ submitCalls' = <<>>
    /\ built' = <<>>
    /\ outcomes' = <<>>
    /\ UNCHANGED <<serviceVars, fnVars, suspended>>

\* the locals the batch loop updates
locals == [results |-> results, successCount |-> successCount,
           failCount |-> failCount, sequenceNumber |-> sequenceNumber]

\* mutant: the loop is left after the first failed batch
ContinueAbortOnFailure(st, status, via, detail) ==
    /\ results' = st.results
    /\ successCount' = st.successCount
    /\ failCount' = st.failCount
    /\ sequenceNumber' = st.sequenceNumber
    /\ outcomes' = Append(outcomes,
                      [batch |-> batchIdx, status |-> status, via |-> via,
                       detail |-> detail,
                       before |-> sequenceNumber, after |-> st.sequenceNumber])
    /\ IF batchIdx < Len(batches) /\ status = "success"
       THEN /\ batchIdx' = batchIdx + 1
            /\ pc' = "build"
            /\ UNCHANGED report
       ELSE /\ batchIdx' = batchIdx
            /\ pc' = "done"
            /\ report' = batchResult(instructions, batches, network, st)

\* mutant: a failed batch is tried again instead of moving to the next one
ContinueRetryOnFailure(st, status, via, detail) ==
    /\ results' = st.results
    /\ successCount' = st.successCount
    /\ failCount' = st.failCount
    /\ sequenceNumber' = st.sequenceNumber
    /\ outcomes' = Append(outcomes,
                      [batch |-> batchIdx, status |-> status, via |-> via,
                       detail |-> detail,
                       before |-> sequenceNumber, after |-> st.sequenceNumber])
    /\ IF status = "failed"
       THEN /\ batchIdx' = batchIdx
            /\ pc' = "build"
            /\ UNCHANGED report
       ELSE IF batchIdx < Len(batches)
       THEN /\ batchIdx' = batchIdx + 1
            /\ pc' = "build"
            /\ UNCHANGED report
       ELSE /\ batchIdx' = batchIdx
            /\ pc' = "done"
            /\ report' = batchResult(instructions, batches, network, st)

\* the end of one iteration of the for-of loop (line 60): the next batch, or
\* the return statement after the last one (lines 104-117)
Continue(st, status, via, detail) ==
    /\ results' = st.results
    /\ successCount' = st.successCount
    /\ failCount' = st.failCount
    /\ sequenceNumber' = st.sequenceNumber
    /\ outcomes' = Append(outcomes,
                      [batch |-> batchIdx, status |-> status, via |-> via,
                       detail |-> detail,
                       before |-> sequenceNumber, after |-> st.sequenceNumber])
    /\ IF batchIdx < Len(batches)
       THEN /\ batchIdx' = batchIdx + 1
            /\ pc' = "build"
            /\ UNCHANGED report
       ELSE /\ batchIdx' = batchIdx
            /\ pc' = "done"
            /\ report' = batchResult(instructions, batches, network, st)

\* server.loadAccount resolves; createPaymentBatches runs (lines 52-58)
LoadAccountReturns ==
    /\ pc = "loadAccount"
    /\ \E seq \in SequenceValues :
          /\ sequenceNumber' = seq
          /\ loadedSequence' = seq
    /\ LET created == createPaymentBatches(instructions, maxOperationsPerTransaction) IN
       IF created.threw
       THEN /\ pc' = "threw"
            /\ report' = [threw |-> TRUE, error |-> created.error,
                          names |-> created.names, positions |-> created.positions]
            /\ UNCHANGED <<batches, batchIdx>>
       ELSE /\ batches' = created.batches
            /\ IF Len(created.batches) = 0
               THEN /\ pc' = "done"
                    /\ batchIdx' = 0
                    /\ report' = batchResult(instructions, created.batches, network, locals)
               ELSE /\ pc' = "build"
                    /\ batchIdx' = 1
                    /\ UNCHANGED report
    /\ UNCHANGED <<instructions, results, successCount, failCount, transaction>>
    /\ UNCHANGED <<serviceVars, loadCalls, submitCalls, built, outcomes, fnVars, suspended>>

\* mutant: the failure of the load is caught and a report that marks every
\* instruction failed is returned
LoadAccountThrowsReporting ==
    /\ pc = "loadAccount"
    /\ \E error \in Thrown :
          /\ results' = failedResults(instructions, errorMessage(error))
          /\ report' = [totalRecipients |-> Len(instructions),
                        totalAmount |-> undefined,
                        totalTransactions |-> 0,
                        network |-> network,
                        results |-> failedResults(instructions, errorMessage(error)),
                        summary |-> [successful |-> 0, failed |-> Len(instructions)]]
    /\ failCount' = Len(instructions)
    /\ pc' = "done"
    /\ UNCHANGED <<instructions, sequenceNumber, batches, batchIdx,
                   successCount, transaction>>
    /\ UNCHANGED <<serviceVars, ledgerVars, fnVars, suspended>>

\* server.loadAccount rejects: nothing catches it, submitBatch rejects with
\* the value thrown (line 52); error is its message when it has one
LoadAccountThrows ==
    /\ pc = "loadAccount"
    /\ \E error \in Thrown :
          report' = [threw |-> TRUE, error |-> error.message, thrown |-> error]
    /\ pc' = "threw"
    /\ UNCHANGED <<instructions, results, sequenceNumber, batches, batchIdx,
                   successCount, failCount, transaction>>
    /\ UNCHANGED <<serviceVars, ledgerVars, fnVars, suspended>>

\* the payments of the batch before the current one when that batch failed
failedBefore ==
    IF batchIdx > 1 /\ outcomes[batchIdx - 1].status = "failed"
    THEN batches[batchIdx - 1]
    ELSE <<>>

\* mutant: the payments of a failed batch are put into the next transaction
BuildTransactionReturnsCarryingFailed ==
    /\ pc = "build"
    /\ transaction' = buildTransaction(failedBefore \o batches[batchIdx], sequenceNumber)
    /\ built' = Append(built, [batch |-> batchIdx,
                               transaction |-> buildTransaction(failedBefore \o batches[batchIdx],
                                                                sequenceNumber)])
    /\ pc' = "sign"
    /\ UNCHANGED <<instructions, results, sequenceNumber, batches, batchIdx,
                   successCount, failCount, report>>
    /\ UNCHANGED <<serviceVars, loadedSequence, loadCalls, submitCalls, outcomes, fnVars, suspended>>

\* mutant: the account is loaded again before every transaction is built
BuildTransactionReturnsReloading ==
    /\ pc = "build"
    /\ loadCalls' = loadCalls + 1
    /\ transaction' = buildTransaction(batches[batchIdx], sequenceNumber)
    /\ built' = Append(built, [batch |-> batchIdx,
                               transaction |-> buildTransaction(batches[batchIdx], sequenceNumber)])
    /\ pc' = "sign"
    /\ UNCHANGED <<instructions, results, sequenceNumber, batches, batchIdx,
                   successCount, failCount, report>>
    /\ UNCHANGED <<serviceVars, loadedSequence, submitCalls, outcomes, fnVars, suspended>>

\* buildTransaction returns the transaction of the current batch (line 62)
BuildTransactionReturns ==
    /\ pc = "build"
    /\ transaction' = buildTransaction(batches[batchIdx], sequenceNumber)
    /\ built' = Append(built, [batch |-> batchIdx,
                               transaction |-> buildTransaction(batches[batchIdx], sequenceNumber)])
    /\ pc' = "sign"
    /\ UNCHANGED <<instructions, results, sequenceNumber, batches, batchIdx,
                   successCount, failCount, report>>
    /\ UNCHANGED <<serviceVars, loadedSequence, loadCalls, submitCalls, outcomes, fnVars, suspended>>

\* mutant: no try/catch around the batch, the fault rejects submitBatch
BuildTransactionThrowsUncaught ==
    /\ pc = "build"
    /\ \E error \in Thrown : report' = [threw |-> TRUE, error |-> errorMessage(error)]
    /\ pc' = "threw"
    /\ UNCHANGED <<instructions, results, sequenceNumber, batches, batchIdx,
                   successCount, failCount, transaction>>
    /\ UNCHANGED <<serviceVars, ledgerVars, fnVars, suspended>>

\* buildTransaction throws: the catch block of submitBatch (lines 62, 90-101)
BuildTransactionThrows ==
    /\ pc = "build"
    /\ \E error \in Thrown :
          Continue(recordCaught(batches[batchIdx], error, locals),
                   "failed", "buildThrew", errorMessage(error))
    /\ UNCHANGED <<instructions, batches, transaction>>
    /\ UNCHANGED <<serviceVars, loadedSequence, loadCalls, submitCalls, built, fnVars, suspended>>

\* transaction.sign throws inside submitTransaction (lines 204, 220-225, 78-89)
SignThrows ==
    /\ pc = "sign"
    /\ \E error \in SignErrors :
          Continue(recordRejected(batches[batchIdx], submitTransactionCaught(error), locals),
                   "failed", "signThrew", errorMessage(error))
    /\ UNCHANGED <<instructions, batches, transaction>>
    /\ UNCHANGED <<serviceVars, loadedSequence, loadCalls, submitCalls, built, fnVars, suspended>>

\* mutant: the submission is not awaited, the loop goes on to the next batch
SubmitTransactionCallNotAwaited ==
    /\ pc = "sign"
    /\ submitCalls' = Append(submitCalls, [batch |-> batchIdx, transaction |-> transaction])
    /\ IF batchIdx < Len(batches)
       THEN /\ batchIdx' = batchIdx + 1
            /\ pc' = "build"
       ELSE /\ batchIdx' = batchIdx
            /\ pc' = "inFlight"
    /\ UNCHANGED <<instructions, results, sequenceNumber, batches,
                   successCount, failCount, transaction, report>>
    /\ UNCHANGED <<serviceVars, loadedSequence, loadCalls, built, outcomes, fnVars, suspended>>

\* the transaction is signed and handed to server.submitTransaction (lines 204-207)
SubmitTransactionCall ==
    /\ pc = "sign"
    /\ submitCalls' = Append(submitCalls, [batch |-> batchIdx, transaction |-> transaction])
    /\ pc' = "inFlight"
    /\ UNCHANGED <<instructions, results, sequenceNumber, batches, batchIdx,
                   successCount, failCount, transaction, report>>
    /\ UNCHANGED <<serviceVars, loadedSequence, loadCalls, built, outcomes, fnVars, suspended>>

\* server.submitTransaction rejects (lines 207, 220-225, 78-89)
ServerThrows ==
    /\ pc = "inFlight"
    /\ \E error \in Thrown :
          Continue(recordRejected(batches[batchIdx], submitTransactionCaught(error), locals),
                   "failed", "submitThrew", errorMessage(error))
    /\ UNCHANGED <<instructions, batches, transaction>>
    /\ UNCHANGED <<serviceVars, loadedSequence, loadCalls, submitCalls, built, fnVars, suspended>>

\* server.submitTransaction resolves (lines 207-219, 65-89)
ServerResponds ==
    /\ pc = "inFlight"
    /\ \E response \in Responses(transaction) :
          LET result == submitTransactionResponse(response) IN
          IF result.success
          THEN Continue(recordSuccess(batches[batchIdx], result, locals),
                        "success", "accepted", response.hash)
          ELSE Continue(recordRejected(batches[batchIdx], result, locals),
                        "failed", "rejected", result.error)
    /\ UNCHANGED <<instructions, batches, transaction>>
    /\ UNCHANGED <<serviceVars, loadedSequence, loadCalls, submitCalls, built, fnVars, suspended>>

\* the promise of submitBatch has settled and the caller holds its report or
\* its error: the locals of the run are gone (lines 106-118)
RunEnds ==
    /\ pc \in {"done", "threw"}
    /\ pc' = "idle"
    /\ instructions' = <<>>
    /\ results' = <<>>
    /\ sequenceNumber' = UnsetNumber
    /\ batches' = <<>>
    /\ batchIdx' = 0
    /\ successCount' = 0
    /\ failCount' = 0
    /\ transaction' = UnsetObject
    /\ report' = UnsetObject
    /\ loadedSequence' = UnsetNumber
    /\ loadCalls' = 0
    /\ submitCalls' = <<>>
    /\ built' = <<>>
    /\ outcomes' = <<>>
    /\ UNCHANGED <<serviceVars, fnVars, suspended>>

Next ==
    \/ Constructor
    \/ SubmitBatch
    \/ LoadAccountReturns
    \/ LoadAccountThrows
    \/ BuildTransactionReturns
    \/ BuildTransactionThrows
    \/ SignThrows
    \/ SubmitTransactionCall
    \/ ServerThrows
    \/ ServerResponds
    \/ RunEnds

Spec == Init /\ [][Next]_vars

(***************************************************************************)
(* createBatches applied to bounded inputs                                 *)
(***************************************************************************)
BatcherBounds == (0..MaxBound) \cup {MaxOperationsCeiling}

InitBatcher ==
    /\ constructed = "no"
    /\ keypair = Unset
    /\ network = Unset
    /\ maxOperationsPerTransaction = UnsetNumber
    /\ server = Unset
    /\ pc = "idle"
    /\ instructions = <<>>
    /\ results = <<>>
    /\ sequenceNumber = UnsetNumber
    /\ batches = <<>>
    /\ batchIdx = 0
    /\ successCount = 0
    /\ failCount = 0
    /\ transaction = UnsetObject
    /\ report = UnsetObject
    /\ loadedSequence = UnsetNumber
    /\ loadCalls = 0
    /\ submitCalls = <<>>
    /\ built = <<>>
    /\ outcomes = <<>>
    /\ call \in [fn : {"createBatches"}, instructions : InstructionLists, max : BatcherBounds]
    /\ ret = [done |-> FALSE]
    /\ suspended = NoRun

CallCreateBatches ==
    /\ call.fn = "createBatches"
    /\ ~ret.done
    /\ ret' = [done |-> TRUE, value |-> createBatches(call.instructions, call.max)]
    /\ UNCHANGED <<serviceVars, runVars, ledgerVars, call, suspended>>

NextBatcher == CallCreateBatches

SpecBatcher == InitBatcher /\ [][NextBatcher]_vars

(***************************************************************************)
(* Properties of createBatches (SpecBatcher)                               *)
(***************************************************************************)
RECURSIVE concatPayments(_)
\* the payments of a sequence of batches, concatenated in list order
concatPayments(bs) ==
    IF Len(bs) = 0 THEN <<>> ELSE Head(bs).payments \o concatPayments(Tail(bs))

\* k = ceil(n / m), stated without division: 0 batches for n = 0, and
\* otherwise (k - 1) * m < n <= k * m
IsCeilingOf(k, n, m) ==
    IF n = 0 THEN k = 0 ELSE (k - 1) * m < n /\ n <= k * m

\* what C5 asks of a finished call of createBatches
BatchCountAndSizes ==
    /\ IsCeilingOf(Len(ret.value), Len(call.instructions), call.max)
    /\ \A b \in 1..Len(ret.value) : Len(ret.value[b].payments) <= call.max

\* C5 as stated: for every non-negative bound m and every list of length n,
\* createBatches returns ceil(n/m) batches, each of at most m payments.
\* Fails for m = 0: every batch then holds one payment.
C5_CountAndSizeAnyNonNegativeBound ==
    (ret.done /\ call.fn = "createBatches" /\ call.max >= 0) => BatchCountAndSizes

\* C5 amended: for every bound m >= 1 and every list of length n,
\* createBatches returns ceil(n/m) batches (0 when n = 0), each of at most m
\* payments.
C5_CountAndSizePositiveBound ==
    (ret.done /\ call.fn = "createBatches" /\ call.max >= 1) => BatchCountAndSizes

C5_Witness ==
    /\ ret.done
    /\ call.fn = "createBatches"
    /\ call.max = 2
    /\ Len(call.instructions) = 3
    /\ Len(ret.value) = 2

\* C6: concatenating the payments of the returned batches in transactionIndex
\* order reproduces the input list: nothing dropped, duplicated or reordered.
C6_ConcatenationReproducesInput ==
    (ret.done /\ call.fn = "createBatches") =>
        /\ concatPayments(ret.value) = call.instructions
        /\ \A b \in 1..Len(ret.value) : \A c \in 1..Len(ret.value) :
              b < c => ret.value[b].transactionIndex < ret.value[c].transactionIndex

C6_Witness ==
    /\ ret.done
    /\ call.fn = "createBatches"
    /\ call.instructions = <<PaymentA, PaymentB, PaymentA>>
    /\ Len(ret.value) = 2
    /\ ret.value[2].payments = <<PaymentA>>

\* C7: the batch at list position i (counted from 0) has transactionIndex i:
\* the indices are 0, 1, ..., k-1 with no gaps and no repeats.
C7_TransactionIndicesContiguous ==
    (ret.done /\ call.fn = "createBatches") =>
        \A b \in 1..Len(ret.value) : ret.value[b].transactionIndex = b - 1

C7_Witness ==
    /\ ret.done
    /\ call.fn = "createBatches"
    /\ Len(ret.value) = 3
    /\ ret.value[3].transactionIndex = 2

(***************************************************************************)
(* Properties of the StellarService and its runs (Spec)                    *)
(***************************************************************************)
\* the batch loop has been entered, or the report returned
Running == pc \in {"build", "sign", "inFlight", "done"}

RECURSIVE batchStart(_)
\* the number of instructions in the batches before batch j
batchStart(j) == IF j <= 1 THEN 0 ELSE batchStart(j - 1) + Len(batches[j - 1])

HasInvalidInstruction ==
    \E i \in 1..Len(instructions) : ~validatePaymentInstruction(instructions[i]).valid

NumSuccessfulBatches ==
    Cardinality({k \in 1..Len(outcomes) : outcomes[k].status = "success"})

\* C1: the report has one result per input instruction, result i carries the
\* recipient, amount and asset of instruction i, and each is tagged success
\* or failed, whatever the outcomes of the batches.
C1_ReportAccountsForEveryInstruction ==
    pc = "done" =>
        /\ Len(report.results) = Len(instructions)
        /\ \A i \in 1..Len(instructions) :
              /\ report.results[i].recipient = instructions[i].address
              /\ report.results[i].amount = instructions[i].amount
              /\ report.results[i].asset = instructions[i].asset
              /\ report.results[i].status \in {"success", "failed"}

C1_Witness ==
    /\ pc = "done"
    /\ instructions = <<PaymentA, PaymentB, PaymentA>>
    /\ Len(batches) = 2
    /\ report.results[1].status = "failed"
    /\ report.results[3].status = "success"

\* C2: the sequence counter is the loaded value plus the number of successful
\* batches at every point of the run: each successful batch adds exactly 1,
\* each failed batch adds 0, whatever its position, and it never decreases.
C2_SequenceAdvancesOnSuccessOnly ==
    Running =>
        /\ \A k \in 1..Len(outcomes) :
              /\ outcomes[k].before =
                    IF k = 1 THEN loadedSequence ELSE outcomes[k - 1].after
              /\ outcomes[k].after =
                    outcomes[k].before + (IF outcomes[k].status = "success" THEN 1 ELSE 0)
        /\ sequenceNumber = loadedSequence + NumSuccessfulBatches
        /\ sequenceNumber >= loadedSequence

C2_Witness ==
    /\ pc = "done"
    /\ Len(outcomes) = 2
    /\ outcomes[1].via = "rejected"
    /\ outcomes[2].status = "success"
    /\ sequenceNumber = loadedSequence + 1

\* C3: fail-forward: the batches are processed once each, in order, whatever
\* the earlier outcomes; a run that has its batches ends with a report, and
\* every batch whose build did not throw was built once, every batch whose
\* signing did not throw was submitted once.
C3_FailForward ==
    /\ \A k \in 1..Len(outcomes) : outcomes[k].batch = k
    /\ pc \in {"build", "sign", "inFlight"} =>
          /\ batchIdx <= Len(batches)
          /\ Len(outcomes) = batchIdx - 1
    /\ pc = "threw" => Len(batches) = 0
    /\ pc = "done" =>
          /\ Len(outcomes) = Len(batches)
          /\ \A k \in 1..Len(batches) :
                /\ Cardinality({b \in 1..Len(built) : built[b].batch = k})
                      = IF outcomes[k].via = "buildThrew" THEN 0 ELSE 1
                /\ Cardinality({c \in 1..Len(submitCalls) : submitCalls[c].batch = k})
                      = IF outcomes[k].via \in {"buildThrew", "signThrew"} THEN 0 ELSE 1

C3_Witness ==
    /\ pc = "done"
    /\ Len(batches) = 3
    /\ outcomes[1].via = "rejected"
    /\ outcomes[2].via = "buildThrew"
    /\ outcomes[3].status = "success"
    /\ Len(submitCalls) = 2

\* C4: when some instruction of the list is invalid, at any position, no
\* transaction is built and server.submitTransaction is never called.
C4_InvalidInstructionNeverSubmits ==
    HasInvalidInstruction => Len(built) = 0 /\ Len(submitCalls) = 0

C4_Witness ==
    /\ pc = "threw"
    /\ maxOperationsPerTransaction = 1
    /\ instructions = <<PaymentA, PaymentB, BadAddress>>
    /\ report.error = "Invalid payment instruction for INVALID_ADDRESS: Invalid address"

C9_ThrownFaultIsBatchFailure ==
    /\ pc = "threw" => Len(batches) = 0 /\ Len(outcomes) = 0
    /\ Running =>
          \A k \in 1..Len(outcomes) :
              outcomes[k].via \in {"buildThrew", "signThrew", "submitThrew"} =>
                  /\ outcomes[k].status = "failed"
                  /\ outcomes[k].after = outcomes[k].before
                  /\ \A i \in 1..Len(batches[k]) :
                        /\ results[batchStart(k) + i].status = "failed"
                        /\ results[batchStart(k) + i].error = outcomes[k].detail
                        /\ results[batchStart(k) + i].transactionHash = undefined

C9_Witness ==
    /\ pc = "done"
    /\ Len(outcomes) = 3
    /\ outcomes[1].via = "buildThrew"
    /\ outcomes[2].via = "signThrew"
    /\ outcomes[3].via = "submitThrew"
    /\ report.summary.failed = 3

\* C10: a configuration validateBatchConfig rejects makes the constructor
\* throw before any field is set; a service object exists only for an
\* accepted configuration, and only such an object runs or calls the ledger.
C10_InvalidConfigIsFatal ==
    /\ constructed = "threw" =>
          /\ keypair = Unset
          /\ network = Unset
          /\ server = Unset
          /\ maxOperationsPerTransaction = UnsetNumber
          /\ pc = "idle"
          /\ loadCalls = 0
          /\ Len(submitCalls) = 0
    /\ constructed = "yes" =>
          validateBatchConfig([secretKey |-> keypair, network |-> network,
                               maxOperationsPerTransaction |-> maxOperationsPerTransaction]).valid
    /\ (pc # "idle" \/ loadCalls > 0 \/ Len(submitCalls) > 0) => constructed = "yes"

C10_Witness ==
    /\ constructed = "threw"
    /\ report.error = "Invalid maxOperationsPerTransaction"
    /\ keypair = Unset

\* C11: the service object has 1 <= maxOperationsPerTransaction <= 100, and
\* every transaction built holds at least 1 and at most
\* maxOperationsPerTransaction payment operations.
C11_TransactionSizeWithinCeiling ==
    /\ constructed = "yes" =>
          /\ maxOperationsPerTransaction >= 1
          /\ maxOperationsPerTransaction <= MaxOperationsCeiling
    /\ \A b \in 1..Len(built) :
          /\ Len(built[b].transaction.operations) >= 1
          /\ Len(built[b].transaction.operations) <= maxOperationsPerTransaction

C11_Witness ==
    /\ pc = "done"
    /\ maxOperationsPerTransaction = 2
    /\ Len(built) = 2
    /\ Len(built[1].transaction.operations) = 2
    /\ Len(built[2].transaction.operations) = 1

(***************************************************************************)
(* validatePaymentInstructions applied to bounded inputs (SpecValidator)   *)
(***************************************************************************)
\* no service object and no run: the state the pure functions are applied in
ServiceAtRest ==
    /\ constructed = "no"
    /\ keypair = Unset
    /\ network = Unset
    /\ maxOperationsPerTransaction = UnsetNumber
    /\ server = Unset
    /\ pc = "idle"
    /\ instructions = <<>>
    /\ results = <<>>
    /\ sequenceNumber = UnsetNumber
    /\ batches = <<>>
    /\ batchIdx = 0
    /\ successCount = 0
    /\ failCount = 0
    /\ transaction = UnsetObject
    /\ report = UnsetObject
    /\ loadedSequence = UnsetNumber
    /\ loadCalls = 0
    /\ submitCalls = <<>>
    /\ built = <<>>
    /\ outcomes = <<>>

InitValidator ==
    /\ ServiceAtRest
    /\ call \in [fn : {"validatePaymentInstructions"}, instructions : InstructionLists]
    /\ ret = [done |-> FALSE]
    /\ suspended = NoRun

CallValidatePaymentInstructions ==
    /\ call.fn = "validatePaymentInstructions"
    /\ ~ret.done
    /\ ret' = [done |-> TRUE, value |-> validatePaymentInstructions(call.instructions)]
    /\ UNCHANGED <<serviceVars, runVars, ledgerVars, call, suspended>>

NextValidator == CallValidatePaymentInstructions

SpecValidator == InitValidator /\ [][NextValidator]_vars

\* C12: the keys of the errors map are exactly the (0-based) indices of the
\* instructions validatePaymentInstruction rejects, each with that
\* instruction's reason, and valid is true exactly when the map is empty.
C12_ErrorsAreExactlyTheRejectedIndices ==
    (ret.done /\ call.fn = "validatePaymentInstructions") =>
        /\ DOMAIN ret.value.errors =
              {i - 1 : i \in {j \in 1..Len(call.instructions) :
                                 ~validatePaymentInstruction(call.instructions[j]).valid}}
        /\ \A k \in DOMAIN ret.value.errors :
              ret.value.errors[k] = validatePaymentInstruction(call.instructions[k + 1]).error
        /\ ret.value.valid <=> (DOMAIN ret.value.errors = {})

C12_Witness ==
    /\ ret.done
    /\ call.fn = "validatePaymentInstructions"
    /\ call.instructions = <<PaymentA, BadAddress, BadAmount>>
    /\ DOMAIN ret.value.errors = {1, 2}
    /\ ~ret.value.valid

(***************************************************************************)
(* More properties of the runs (Spec)                                      *)
(***************************************************************************)
\* the number of results of a report with the given status
NumResultsWithStatus(rs, status) ==
    Cardinality({i \in 1..Len(rs) : rs[i].status = status})

\* C13: in every report, summary.successful and summary.failed are the
\* numbers of results with status success and failed; their sum is
\* totalRecipients, the length of the input list and of results.
C13_SummaryTalliesResults ==
    pc = "done" =>
        /\ report.summary.successful = NumResultsWithStatus(report.results, "success")
        /\ report.summary.failed = NumResultsWithStatus(report.results, "failed")
        /\ report.summary.successful + report.summary.failed = report.totalRecipients
        /\ report.totalRecipients = Len(instructions)
        /\ report.totalRecipients = Len(report.results)

C13_Witness ==
    /\ pc = "done"
    /\ report.totalRecipients = 3
    /\ report.summary.successful = 2
    /\ report.summary.failed = 1
    /\ outcomes[2].via = "buildThrew"

\* the built transactions that hold the instruction at list position p
BuiltCovering(p) ==
    {b \in 1..Len(built) :
        /\ batchStart(built[b].batch) < p
        /\ p <= batchStart(built[b].batch) + Len(built[b].transaction.operations)}

FailedAndWhy(k) ==
    \A i \in 1..Len(batches[k]) :
        /\ results[batchStart(k) + i].status = "failed"
        /\ results[batchStart(k) + i].error \notin {"", undefined}

RejectedAsInvalid == pc = "threw" /\ "names" \in DOMAIN report

\* C16 as stated: a run rejected for invalid instructions reports every
\* invalid instruction, each with its list position. Fails: the Error names
\* the address of the first invalid instruction only, and no position.
C16_RejectionNamesEveryInvalidInstruction ==
    RejectedAsInvalid =>
        \A i \in 1..Len(instructions) :
            ~validatePaymentInstruction(instructions[i]).valid =>
                /\ instructions[i].address \in report.names
                /\ (i - 1) \in report.positions

\* C17 as stated: when some instruction is invalid, the run is rejected
\* before any Ledger Client call, the account load included. Fails:
\* server.loadAccount is called before createPaymentBatches validates.
C17_InvalidInputRejectedBeforeAnyLedgerCall ==
    HasInvalidInstruction => loadCalls = 0 /\ Len(submitCalls) = 0

\* the submissions whose outcome has not been recorded yet
SubmissionsInFlight ==
    {c \in 1..Len(submitCalls) : submitCalls[c].batch > Len(outcomes)}

\* C18: batches are built and submitted one at a time, in index order: the
\* transaction of a batch is built only when the outcomes of all earlier
\* batches are recorded, and at most one submission is in flight.
C18_OneBatchAtATime ==
    /\ \A b \in 1..Len(built) :
          /\ built[b].batch <= Len(outcomes) + 1
          /\ built[b].batch = Len(outcomes) + 1 =>
                b = Len(built) /\ pc \in {"sign", "inFlight"}
          /\ \A c \in 1..Len(built) : b < c => built[b].batch < built[c].batch
    /\ \A b \in 1..Len(submitCalls) : \A c \in 1..Len(submitCalls) :
          b < c => submitCalls[b].batch < submitCalls[c].batch
    /\ Cardinality(SubmissionsInFlight) <= 1
    /\ (SubmissionsInFlight # {}) <=> (pc = "inFlight")

C18_Witness ==
    /\ pc = "inFlight"
    /\ batchIdx = 2
    /\ Len(outcomes) = 1
    /\ Len(submitCalls) = 2
    /\ Len(built) = 2

\* C19: in every run the account is loaded exactly once, before the first
\* transaction is built or submitted, and the counter is never re-read from
\* the ledger: every transaction carries the loaded value plus the number of
\* successful batches before it.
C19_SequenceLoadedOnceAtStart ==
    /\ pc # "idle" => loadCalls = 1
    /\ pc = "loadAccount" => Len(built) = 0 /\ Len(submitCalls) = 0
    /\ \A b \in 1..Len(built) :
          /\ loadCalls = 1
          /\ built[b].transaction.sequenceNumber =
                loadedSequence
                + Cardinality({k \in 1..Len(outcomes) :
                                  k < built[b].batch /\ outcomes[k].status = "success"})
    /\ \A c \in 1..Len(submitCalls) :
          \E b \in 1..Len(built) : built[b].transaction = submitCalls[c].transaction

C19_Witness ==
    /\ pc = "done"
    /\ loadCalls = 1
    /\ Len(built) = 3
    /\ Len(submitCalls) = 3
    /\ outcomes[1].status = "success"
    /\ outcomes[2].status = "failed"

(***************************************************************************)
(* getBatchSummary applied to bounded inputs (SpecSummary)                 *)
(***************************************************************************)
RECURSIVE getBatchSummaryLoopOverwriting(_, _, _, _)
\* mutant: the count of an asset is set to 1 instead of incremented
getBatchSummaryLoopOverwriting(instrs, i, totalAmount, assetCount) ==
    IF i > Len(instrs)
    THEN [recipientCount |-> Len(instrs),
          totalAmount |-> numberToString(totalAmount),
          assetBreakdown |-> assetCount]
    ELSE getBatchSummaryLoopOverwriting(instrs, i + 1,
                                        numberAdd(totalAmount, parseFloat(instrs[i].amount)),
                                        (instrs[i].asset :> 1) @@ assetCount)

RECURSIVE getBatchSummaryLoop(_, _, _, _)
\* the for loop of getBatchSummary; assetCount is the Map as a function
getBatchSummaryLoop(instrs, i, totalAmount, assetCount) ==
    IF i > Len(instrs)
    THEN [recipientCount |-> Len(instrs),
          totalAmount |-> numberToString(totalAmount),
          assetBreakdown |-> assetCount]
    ELSE LET asset == instrs[i].asset
             count == IF asset \in DOMAIN assetCount THEN assetCount[asset] ELSE 0
         IN  getBatchSummaryLoop(instrs, i + 1,
                                 numberAdd(totalAmount, parseFloat(instrs[i].amount)),
                                 (asset :> count + 1) @@ assetCount)

getBatchSummary(instrs) == getBatchSummaryLoop(instrs, 1, Zero, <<>>)

SummaryPayments ==
    {[address |-> "GAAA", amount |-> "0.1", asset |-> "XLM"],
     [address |-> "GBBB", amount |-> "0.2", asset |-> "USDC:GISSUER"],
     [address |-> "GAAA", amount |-> "0.3", asset |-> "USDC:GOTHER"],
     [address |-> "GAAA", amount |-> "10.5", asset |-> "XLM"],
     [address |-> "GBBB", amount |-> "20.25", asset |-> "XLM"]}

SummaryLists == UNION {[1..n -> SummaryPayments] : n \in 0..MaxLen}

\* the orderings of a list
PermutationsOf(instrs) ==
    {[i \in 1..Len(instrs) |-> instrs[sigma[i]]] : sigma \in Permutations(1..Len(instrs))}

InitSummary ==
    /\ ServiceAtRest
    /\ \E instrs \in SummaryLists : \E permuted \in PermutationsOf(instrs) :
          call = [fn |-> "getBatchSummary", instructions |-> instrs, permuted |-> permuted]
    /\ ret = [done |-> FALSE]
    /\ suspended = NoRun

\* getBatchSummary of the list and of its reordering
CallGetBatchSummary ==
    /\ call.fn = "getBatchSummary"
    /\ ~ret.done
    /\ ret' = [done |-> TRUE,
               value |-> getBatchSummary(call.instructions),
               ofPermuted |-> getBatchSummary(call.permuted)]
    /\ UNCHANGED <<serviceVars, runVars, ledgerVars, call, suspended>>

NextSummary == CallGetBatchSummary

SpecSummary == InitSummary /\ [][NextSummary]_vars

\* C20 as stated: getBatchSummary of a list and of any permutation of it
\* return the same totalAmount and the same assetBreakdown (as a mapping
\* from asset to count). Fails for totalAmount: the sum is accumulated in
\* binary floating point, whose addition is not associative.
C20_SummaryIsOrderIndependent ==
    (call.fn = "getBatchSummary" /\ ret.done) =>
        /\ ret.value.totalAmount = ret.ofPermuted.totalAmount
        /\ ret.value.assetBreakdown = ret.ofPermuted.assetBreakdown

RECURSIVE hundredths(_)
\* the exact sum of the amounts of a list, in hundredths
hundredths(instrs) ==
    IF Len(instrs) = 0 THEN 0
    ELSE decimalOf(Head(instrs).amount).n * (100 \div decimalOf(Head(instrs).amount).d)
         + hundredths(Tail(instrs))

\* C21 as stated: the totalAmount of getBatchSummary is the exact decimal sum
\* of the amounts, that is the text Number.prototype.toString gives for the
\* number nearest to the exact sum (the amounts and their sums have fewer
\* than 15 significant digits, which that text reproduces). Fails: the sum
\* is accumulated in binary floating point and each addition rounds.
C21_TotalIsExactDecimalSum ==
    (call.fn = "getBatchSummary" /\ ret.done) =>
        ret.value.totalAmount
            = numberToString(nearestNumber(hundredths(call.instructions), 100))

RECURSIVE sumOfCounts(_, _)
\* the sum of the counts of a breakdown over a set of its keys
sumOfCounts(breakdown, keys) ==
    IF keys = {} THEN 0
    ELSE LET k == CHOOSE key \in keys : TRUE
         IN  breakdown[k] + sumOfCounts(breakdown, keys \ {k})

\* C22: assetBreakdown has one key per distinct asset string of the input
\* (native, issued, and issued with another issuer are different keys), the
\* count of a key is the number of instructions with that string, the counts
\* sum to recipientCount, and recipientCount is the length of the list.
C22_BreakdownGroupsByAssetString ==
    (call.fn = "getBatchSummary" /\ ret.done) =>
        LET instrs == call.instructions
            breakdown == ret.value.assetBreakdown
        IN  /\ DOMAIN breakdown = {instrs[i].asset : i \in 1..Len(instrs)}
            /\ \A asset \in DOMAIN breakdown :
                  breakdown[asset]
                      = Cardinality({i \in 1..Len(instrs) : instrs[i].asset = asset})
            /\ sumOfCounts(breakdown, DOMAIN breakdown) = ret.value.recipientCount
            /\ ret.value.recipientCount = Len(instrs)

C22_Witness ==
    /\ call.fn = "getBatchSummary"
    /\ ret.done
    /\ DOMAIN ret.value.assetBreakdown = {"USDC:GISSUER", "USDC:GOTHER"}
    /\ ret.value.assetBreakdown["USDC:GOTHER"] = 2
    /\ ret.value.assetBreakdown["USDC:GISSUER"] = 1

(***************************************************************************)
(* parser.ts: texts are sequences of lexical units                         *)
(***************************************************************************)
\* A text is the sequence of its units [t, v]: a punctuation character, a
\* white-space character, a quoted string (v is what is between the quotes)
\* or a run of other characters.
Comma == [t |-> "punct", v |-> ","]
Newline == [t |-> "space", v |-> "\n"]
Blank == [t |-> "space", v |-> " "]
Word(w) == [t |-> "word", v |-> w]

\* the characters of a unit
source(unit) == IF unit.t = "string" THEN "\"" \o unit.v \o "\"" ELSE unit.v

RECURSIVE charactersOf(_)
\* the string a text is
charactersOf(text) ==
    IF Len(text) = 0 THEN "" ELSE source(Head(text)) \o charactersOf(Tail(text))

\* String.prototype.trim
trim(text) ==
    LET solid == {i \in 1..Len(text) : text[i].t # "space"} IN
    IF solid = {} THEN <<>>
    ELSE SubSeq(text, CHOOSE i \in solid : \A j \in solid : i <= j,
                      CHOOSE i \in solid : \A j \in solid : i >= j)

\* String.prototype.split: the pieces of a text between the separators
split(text, separator) ==
    LET at == {i \in 1..Len(text) : text[i] = separator}
        nth(k) == IF k = 0 THEN 0
                  ELSE IF k = Cardinality(at) + 1 THEN Len(text) + 1
                  ELSE CHOOSE i \in at : Cardinality({j \in at : j <= i}) = k
    IN  [k \in 1..(Cardinality(at) + 1) |-> SubSeq(text, nth(k - 1) + 1, nth(k) - 1)]

\* String.prototype.toLowerCase on the strings that have upper case letters
toLowerCase(string) ==
    CASE string = "Address" -> "address"
      [] string = "AMOUNT" -> "amount"
      [] string = "Asset" -> "asset"
      [] OTHER -> string

\* Array.prototype.indexOf, 0-based, -1 when absent
indexOf(arr, x) ==
    LET at == {i \in 1..Len(arr) : arr[i] = x} IN
    IF at = {} THEN -1 ELSE (CHOOSE i \in at : \A j \in at : i <= j) - 1

\* Math.max of three
max3(a, b, c) == IF a >= b /\ a >= c THEN a ELSE IF b >= c THEN b ELSE c

\* what a parser call comes to: a thrown Error or a returned array
throws(message) == [threw |-> TRUE, error |-> message, value |-> <<>>]
returns(value) == [threw |-> FALSE, error |-> "", value |-> value]

\* mutant: the cells are not trimmed
cellsOfUntrimmed(line) ==
    [k \in 1..Len(split(line, Comma)) |-> charactersOf(split(line, Comma)[k])]

\* line.split(',').map(p => p.trim()), the cells as strings
cellsOf(line) ==
    [k \in 1..Len(split(line, Comma)) |-> charactersOf(trim(split(line, Comma)[k]))]

RECURSIVE parseCSVRowsSkippingShort(_, _, _, _, _, _)
\* mutant: a row with too few columns is skipped instead of rejected
parseCSVRowsSkippingShort(lines, i, addressIndex, amountIndex, assetIndex, parsed) ==
    IF i > Len(lines)
    THEN IF Len(parsed) = 0
         THEN throws("No valid payment instructions found in CSV")
         ELSE returns(parsed)
    ELSE IF Len(trim(lines[i])) = 0
            \/ Len(cellsOf(trim(lines[i]))) < max3(addressIndex, amountIndex, assetIndex) + 1
    THEN parseCSVRowsSkippingShort(lines, i + 1, addressIndex, amountIndex, assetIndex,
                                   parsed)
    ELSE parseCSVRowsSkippingShort(lines, i + 1, addressIndex, amountIndex, assetIndex,
                                   Append(parsed,
                                          [address |-> cellsOf(trim(lines[i]))[addressIndex + 1],
                                           amount |-> cellsOf(trim(lines[i]))[amountIndex + 1],
                                           asset |-> cellsOf(trim(lines[i]))[assetIndex + 1]]))

RECURSIVE parseCSVRows(_, _, _, _, _, _)
\* the loop over the data rows (lines 44-59) and the check after it (parsed is the
\* instructions array so far); i is
\* the 1-based place of the line, the i + 1 of the code
parseCSVRows(lines, i, addressIndex, amountIndex, assetIndex, parsed) ==
    IF i > Len(lines)
    THEN IF Len(parsed) = 0
         THEN throws("No valid payment parsed found in CSV")
         ELSE returns(parsed)
    ELSE IF Len(trim(lines[i])) = 0
    THEN parseCSVRows(lines, i + 1, addressIndex, amountIndex, assetIndex, parsed)
    ELSE LET parts == cellsOf(trim(lines[i])) IN
         IF Len(parts) < max3(addressIndex, amountIndex, assetIndex) + 1
         THEN throws("Row " \o ToString(i) \o " has insufficient columns")
         ELSE parseCSVRows(lines, i + 1, addressIndex, amountIndex, assetIndex,
                           Append(parsed,
                                  [address |-> parts[addressIndex + 1],
                                   amount |-> parts[amountIndex + 1],
                                   asset |-> parts[assetIndex + 1]]))

\* parseCSV (lines 24-66)
parseCSV(content) ==
    LET lines == split(trim(content), Newline) IN
    IF Len(lines) < 2
    THEN throws("CSV must have at least a header row and one data row")
    ELSE LET headers == [k \in 1..Len(cellsOf(lines[1])) |->
                            toLowerCase(cellsOf(lines[1])[k])]
             addressIndex == indexOf(headers, "address")
             amountIndex == indexOf(headers, "amount")
             assetIndex == indexOf(headers, "asset")
         IN  IF addressIndex = -1 \/ amountIndex = -1 \/ assetIndex = -1
             THEN throws("CSV must have \"address\", \"amount\", and \"asset\" columns")
             ELSE parseCSVRows(lines, 2, addressIndex, amountIndex, assetIndex, <<>>)

\* JavaScript values of JSON texts, tagged with their type
jsArray(items) == [type |-> "array", items |-> items]
jsObject(members) == [type |-> "object", members |-> members]
jsString(text) == [type |-> "string", text |-> text]
jsNumber(text) == [type |-> "number", text |-> text]
jsNull == [type |-> "null"]
jsUndefined == [type |-> "undefined"]

Punct(c) == [t |-> "punct", v |-> c]
Quoted(string) == [t |-> "string", v |-> string]

\* the runs of characters that are JSON numbers
NumberLiterals == {"5", "100", "50", "50.25"}

notSpace(unit) == unit.t # "space"

syntaxError(i) == [ok |-> FALSE, value |-> jsUndefined, next |-> i]

RECURSIVE parseValue(_, _)
RECURSIVE parseElements(_, _, _)
RECURSIVE parseMembers(_, _, _)

\* JSON value := array | object | string | number | null, read from units[i]
parseValue(units, i) ==
    IF i > Len(units) THEN syntaxError(i)
    ELSE IF units[i] = Punct("[")
    THEN IF i + 1 <= Len(units) /\ units[i + 1] = Punct("]")
         THEN [ok |-> TRUE, value |-> jsArray(<<>>), next |-> i + 2]
         ELSE parseElements(units, i + 1, <<>>)
    ELSE IF units[i] = Punct("{")
    THEN IF i + 1 <= Len(units) /\ units[i + 1] = Punct("}")
         THEN [ok |-> TRUE, value |-> jsObject(<<>>), next |-> i + 2]
         ELSE parseMembers(units, i + 1, <<>>)
    ELSE IF units[i].t = "string"
    THEN [ok |-> TRUE, value |-> jsString(units[i].v), next |-> i + 1]
    ELSE IF units[i].t = "word" /\ units[i].v \in NumberLiterals
    THEN [ok |-> TRUE, value |-> jsNumber(units[i].v), next |-> i + 1]
    ELSE IF units[i] = Word("null")
    THEN [ok |-> TRUE, value |-> jsNull, next |-> i + 1]
    ELSE syntaxError(i)

\* elements := value ("," value)* "]"
parseElements(units, i, items) ==
    LET element == parseValue(units, i) IN
    IF ~element.ok \/ element.next > Len(units) THEN syntaxError(i)
    ELSE IF units[element.next] = Punct("]")
    THEN [ok |-> TRUE, value |-> jsArray(Append(items, element.value)),
          next |-> element.next + 1]
    ELSE IF units[element.next] = Comma
    THEN parseElements(units, element.next + 1, Append(items, element.value))
    ELSE syntaxError(element.next)

\* members := string ":" value ("," string ":" value)* "}"
parseMembers(units, i, members) ==
    IF i + 1 > Len(units) \/ units[i].t # "string" \/ units[i + 1] # Punct(":")
    THEN syntaxError(i)
    ELSE LET member == parseValue(units, i + 2) IN
         IF ~member.ok \/ member.next > Len(units) THEN syntaxError(i)
         ELSE IF units[member.next] = Punct("}")
         THEN [ok |-> TRUE,
               value |-> jsObject((units[i].v :> member.value) @@ members),
               next |-> member.next + 1]
         ELSE IF units[member.next] = Comma
         THEN parseMembers(units, member.next + 1,
                           (units[i].v :> member.value) @@ members)
         ELSE syntaxError(member.next)

\* JSON.parse: the value of the text, or a SyntaxError
JSONparse(text) ==
    LET units == SelectSeq(text, notSpace)
        parsed == parseValue(units, 1)
    IN  IF parsed.ok /\ parsed.next = Len(units) + 1
        THEN [ok |-> TRUE, value |-> parsed.value, error |-> ""]
        ELSE [ok |-> FALSE, value |-> jsUndefined,
              error |-> "Unexpected token in JSON at position "
                        \o ToString(parsed.next - 1)]

\* mutant: data.payments is returned without the Array.isArray check
parseJSONUnchecked(content) ==
    IF ~JSONparse(content).ok
    THEN throws("Failed to parse JSON: " \o JSONparse(content).error)
    ELSE IF JSONparse(content).value.type = "array"
    THEN returns(JSONparse(content).value)
    ELSE IF JSONparse(content).value.type = "object"
            /\ "payments" \in DOMAIN JSONparse(content).value.members
    THEN returns(JSONparse(content).value.members["payments"])
    ELSE returns(jsUndefined)

\* parseJSON (lines 7-22): every throw of the try block is caught and
\* thrown again as 'Failed to parse JSON: ...'
parseJSON(content) ==
    LET parsed == JSONparse(content)
        data == parsed.value
    IN  IF ~parsed.ok THEN throws("Failed to parse JSON: " \o parsed.error)
        ELSE IF data.type = "array" THEN returns(data)
        ELSE IF data.type = "null"
        THEN throws("Failed to parse JSON: Cannot read properties of null (reading 'payments')")
        ELSE IF data.type = "object" /\ "payments" \in DOMAIN data.members
                /\ data.members["payments"].type = "array"
        THEN returns(data.members["payments"])
        ELSE throws("Failed to parse JSON: Expected an array of payment instructions or object with \"payments\" array")

\* parseInput (lines 68-76)
parseInput(content, format) ==
    IF format = "json" THEN parseJSON(content)
    ELSE IF format = "csv" THEN parseCSV(content)
    ELSE throws("Unknown format: " \o format)

(***************************************************************************)
(* The parsers applied to bounded inputs (SpecParser)                      *)
(***************************************************************************)
HeaderPlain == <<Word("address"), Comma, Word("amount"), Comma, Word("asset")>>
HeaderSpaced ==
    <<Blank, Word("Address"), Comma, Blank, Word("AMOUNT"), Blank, Comma, Word("Asset")>>
HeaderReordered ==
    <<Word("asset"), Comma, Word("amount"), Comma, Word("address"), Comma, Word("memo")>>
HeaderWithoutAsset == <<Word("address"), Comma, Word("amount")>>

RowPlain == <<Word("GAAA"), Comma, Word("100"), Comma, Word("XLM")>>
RowSpaced ==
    <<Word("GBBB"), Blank, Comma, Blank, Word("50.25"), Comma, Blank,
      Word("USDC:GISSUER"), Blank>>
RowShort == <<Word("GAAA"), Comma, Word("100")>>

FirstLines == {HeaderPlain, HeaderSpaced, HeaderReordered, HeaderWithoutAsset}
LaterLines == {RowPlain, RowSpaced, RowShort, <<>>, <<Blank>>}

RECURSIVE joinLines(_)
\* the lines with '\n' between them
joinLines(lines) ==
    IF Len(lines) = 0 THEN <<>>
    ELSE IF Len(lines) = 1 THEN lines[1]
    ELSE lines[1] \o <<Newline>> \o joinLines(Tail(lines))

\* CSV texts of a first line and up to n more lines
CsvContents(n) ==
    {joinLines(<<first>> \o later) :
        first \in FirstLines, later \in UNION {[1..k -> LaterLines] : k \in 0..n}}

KeyOrder == <<"address", "amount", "asset", "payments", "data">>

RECURSIVE stringify(_)
RECURSIVE stringifyItems(_, _)
RECURSIVE stringifyMembers(_, _, _)

\* JSON.stringify
stringify(value) ==
    IF value.type = "array"
    THEN <<Punct("[")>> \o stringifyItems(value.items, 1) \o <<Punct("]")>>
    ELSE IF value.type = "object"
    THEN <<Punct("{")>> \o stringifyMembers(value.members, 1, TRUE) \o <<Punct("}")>>
    ELSE IF value.type = "string" THEN <<Quoted(value.text)>>
    ELSE IF value.type = "number" THEN <<Word(value.text)>>
    ELSE <<Word("null")>>

stringifyItems(items, i) ==
    IF i > Len(items) THEN <<>>
    ELSE (IF i > 1 THEN <<Comma>> ELSE <<>>)
         \o stringify(items[i]) \o stringifyItems(items, i + 1)

stringifyMembers(members, k, first) ==
    IF k > Len(KeyOrder) THEN <<>>
    ELSE IF KeyOrder[k] \notin DOMAIN members
    THEN stringifyMembers(members, k + 1, first)
    ELSE (IF first THEN <<>> ELSE <<Comma>>)
         \o <<Quoted(KeyOrder[k]), Punct(":")>> \o stringify(members[KeyOrder[k]])
         \o stringifyMembers(members, k + 1, FALSE)

jsInstruction(address, amount, asset) ==
    jsObject([address |-> jsString(address), amount |-> jsString(amount),
              asset |-> jsString(asset)])

JsonInstructions ==
    {jsInstruction("GAAA", "100", "XLM"),
     jsInstruction("GBBB", "123.456789", "USDC:GISSUER")}

JsonArrays == {jsArray(items) : items \in UNION {[1..n -> JsonInstructions] : n \in 0..MaxLen}}

\* the values whose texts are parsed: arrays, objects with and without an
\* array under payments, and values that are not objects
JsonValues ==
    [valid : {TRUE},
     value : JsonArrays
             \cup {jsObject([payments |-> a]) : a \in JsonArrays}
             \cup {jsObject([payments |-> a, data |-> jsNumber("5")]) : a \in JsonArrays}]

JsonOtherValues ==
    {[valid |-> TRUE, value |-> jsObject([data |-> jsArray(<<>>)])],
     [valid |-> TRUE, value |-> jsObject([payments |-> jsString("GAAA")])],
     [valid |-> TRUE, value |-> jsObject([payments |-> jsNull])],
     [valid |-> TRUE, value |-> jsObject(<<>>)],
     [valid |-> TRUE, value |-> jsNumber("5")],
     [valid |-> TRUE, value |-> jsString("payments")],
     [valid |-> TRUE, value |-> jsNull]}

\* texts that are not JSON
InvalidJson ==
    {<<Word("invalid"), Blank, Word("json")>>,
     <<Punct("["), Punct("{")>>,
     <<Punct("["), Word("5"), Comma, Punct("]")>>,
     <<Punct("{"), Quoted("payments"), Punct(":"), Punct("}")>>,
     <<Punct("["), Punct("]"), Punct("]")>>,
     <<>>}

ParserFormats == {"json", "csv", "xml"}

InitParser ==
    /\ ServiceAtRest
    /\ ret = [done |-> FALSE]
    /\ suspended = NoRun
    /\ \/ \E content \in CsvContents(MaxLen) :
             call = [fn |-> "parseCSV", content |-> content]
       \/ \E origin \in JsonValues \cup JsonOtherValues :
             call = [fn |-> "parseJSON", content |-> stringify(origin.value),
                     origin |-> origin]
       \/ \E content \in InvalidJson :
             call = [fn |-> "parseJSON", content |-> content,
                     origin |-> [valid |-> FALSE, value |-> jsUndefined]]
       \/ \E format \in ParserFormats :
             \/ \E content \in CsvContents(1) \cup InvalidJson :
                   call = [fn |-> "parseInput", content |-> content, format |-> format]
             \/ \E origin \in JsonValues \cup JsonOtherValues :
                   call = [fn |-> "parseInput", content |-> stringify(origin.value),
                           format |-> format]

CallParseCSV ==
    /\ call.fn = "parseCSV"
    /\ ~ret.done
    /\ ret' = [done |-> TRUE, value |-> parseCSV(call.content)]
    /\ UNCHANGED <<serviceVars, runVars, ledgerVars, call, suspended>>

CallParseJSON ==
    /\ call.fn = "parseJSON"
    /\ ~ret.done
    /\ ret' = [done |-> TRUE, value |-> parseJSON(call.content)]
    /\ UNCHANGED <<serviceVars, runVars, ledgerVars, call, suspended>>

CallParseInput ==
    /\ call.fn = "parseInput"
    /\ ~ret.done
    /\ ret' = [done |-> TRUE, value |-> parseInput(call.content, call.format)]
    /\ UNCHANGED <<serviceVars, runVars, ledgerVars, call, suspended>>

NextParser == CallParseCSV \/ CallParseJSON \/ CallParseInput

SpecParser == InitParser /\ [][NextParser]_vars

\* the lines of the CSV text of the call, its header names, its data rows
CsvLines == split(trim(call.content), Newline)

CsvHeader == [k \in 1..Len(cellsOf(CsvLines[1])) |-> toLowerCase(cellsOf(CsvLines[1])[k])]

nonEmptyLine(line) == trim(line) # <<>>

DataRows == SelectSeq(Tail(CsvLines), nonEmptyLine)

HasColumns == \A name \in {"address", "amount", "asset"} :
                  \E k \in 1..Len(CsvHeader) : CsvHeader[k] = name

\* the first column with the name
columnOf(name) ==
    CHOOSE k \in 1..Len(CsvHeader) :
        CsvHeader[k] = name /\ \A j \in 1..(k - 1) : CsvHeader[j] # name

\* every data row reaches the address, amount and asset columns
RowsSuffice ==
    \A r \in 1..Len(DataRows) : \A name \in {"address", "amount", "asset"} :
        Len(split(trim(DataRows[r]), Comma)) >= columnOf(name)

\* C23: for a CSV text whose header has the address, amount and asset
\* columns (and whose rows reach them), parseCSV returns one instruction per
\* non-empty data row, in row order, made of the trimmed cells under those
\* columns; empty lines are skipped and the amount is the text of its cell.
C23_OneInstructionPerDataRow ==
    (call.fn = "parseCSV" /\ ret.done /\ Len(CsvLines) >= 2 /\ HasColumns /\ RowsSuffice) =>
        /\ ~ret.value.threw
        /\ Len(ret.value.value) = Len(DataRows)
        /\ \A r \in 1..Len(DataRows) :
              /\ ret.value.value[r].address
                    = charactersOf(trim(split(trim(DataRows[r]), Comma)[columnOf("address")]))
              /\ ret.value.value[r].amount
                    = charactersOf(trim(split(trim(DataRows[r]), Comma)[columnOf("amount")]))
              /\ ret.value.value[r].asset
                    = charactersOf(trim(split(trim(DataRows[r]), Comma)[columnOf("asset")]))

C23_Witness ==
    /\ call.fn = "parseCSV"
    /\ ret.done
    /\ ~ret.value.threw
    /\ Len(CsvLines) = 4
    /\ CsvLines[1] = SubSeq(HeaderSpaced, 2, Len(HeaderSpaced))
    /\ ret.value.value = <<[address |-> "GAAA", amount |-> "100", asset |-> "XLM"],
                           [address |-> "GBBB", amount |-> "50.25", asset |-> "USDC:GISSUER"]>>

\* C24: parseCSV throws exactly when there are fewer than two lines, a
\* header column is missing, a non-empty data row has too few columns, or no
\* data row gives an instruction; what it returns is never empty and never
\* leaves a data row out.
C24_CsvIsAllOrNothing ==
    (call.fn = "parseCSV" /\ ret.done) =>
        /\ ret.value.threw <=>
              (Len(CsvLines) < 2 \/ ~HasColumns \/ ~RowsSuffice \/ Len(DataRows) = 0)
        /\ ~ret.value.threw =>
              Len(ret.value.value) >= 1 /\ Len(ret.value.value) = Len(DataRows)
        /\ ret.value.threw => ret.value.value = <<>>

C24_Witness ==
    /\ call.fn = "parseCSV"
    /\ ret.done
    /\ ret.value.threw
    /\ ret.value.error = "Row 3 has insufficient columns"
    /\ CsvLines[2] = RowPlain

arrayUnderPayments(value) ==
    /\ value.type = "object"
    /\ "payments" \in DOMAIN value.members
    /\ value.members["payments"].type = "array"

\* C25: parseJSON returns the array when the text is a JSON array or a JSON
\* object with an array under payments, and throws in every other case; it
\* never returns a value that is not an array. parseInput is parseJSON for
\* 'json', parseCSV for 'csv' and throws for any other format.
C25_JsonArrayOrThrow ==
    /\ (call.fn = "parseJSON" /\ ret.done) =>
          /\ ~ret.value.threw => ret.value.value.type = "array"
          /\ IF call.origin.valid /\ call.origin.value.type = "array"
             THEN ~ret.value.threw /\ ret.value.value = call.origin.value
             ELSE IF call.origin.valid /\ arrayUnderPayments(call.origin.value)
             THEN /\ ~ret.value.threw
                  /\ ret.value.value = call.origin.value.members["payments"]
             ELSE ret.value.threw
    /\ (call.fn = "parseInput" /\ ret.done) =>
          /\ call.format = "json" => ret.value = parseJSON(call.content)
          /\ call.format = "csv" => ret.value = parseCSV(call.content)
          /\ call.format \notin {"json", "csv"} => ret.value.threw

C25_Witness ==
    /\ call.fn = "parseJSON"
    /\ ret.done
    /\ call.origin.valid
    /\ arrayUnderPayments(call.origin.value)
    /\ ~ret.value.threw
    /\ Len(ret.value.value.items) = 2
    /\ ret.value.value.items[2].members["amount"] = jsString("123.456789")

\* the control state of the run, read off the position in submitBatch; the
\* state AccountLoaded lies inside the step in which loadAccount returns
ControlState ==
    CASE pc = "idle" -> "NotStarted"
      [] pc = "loadAccount" -> "Initialized"
      [] pc \in {"build", "sign", "inFlight"} -> "ProcessingBatch"
      [] pc = "done" -> "Completed"
      [] pc = "threw" -> "Rejected"

\* the control states before and after a step
ControlMove == <<ControlState, ControlState'>>

\* the moves Initialized -> AccountLoaded -> (ProcessingBatch)* -> Completed
CompletingMoves ==
    {<<"NotStarted", "NotStarted">>, <<"NotStarted", "Initialized">>,
     <<"Initialized", "ProcessingBatch">>, <<"Initialized", "Completed">>,
     <<"ProcessingBatch", "ProcessingBatch">>, <<"ProcessingBatch", "Completed">>,
     <<"Completed", "NotStarted">>}

SuccessesBefore(k) ==
    Cardinality({j \in 1..Len(outcomes) : j < k /\ outcomes[j].status = "success"})

\* C27: the transaction of batch k carries the loaded value plus the number
\* of successful batches before k; so the batch after a failed batch carries
\* the failed one's value, and no two successful batches carry the same.
C27_SequenceValueOfBatch ==
    \A b \in 1..Len(built) :
        /\ built[b].transaction.sequenceNumber
              = loadedSequence + SuccessesBefore(built[b].batch)
        /\ \A c \in 1..Len(built) :
              /\ (/\ built[c].batch = built[b].batch + 1
                  /\ built[b].batch <= Len(outcomes)
                  /\ outcomes[built[b].batch].status = "failed")
                 => built[c].transaction.sequenceNumber
                        = built[b].transaction.sequenceNumber
              /\ (/\ b # c
                  /\ built[b].batch <= Len(outcomes)
                  /\ built[c].batch <= Len(outcomes)
                  /\ outcomes[built[b].batch].status = "success"
                  /\ outcomes[built[c].batch].status = "success")
                 => built[c].transaction.sequenceNumber
                        # built[b].transaction.sequenceNumber

C27_Witness ==
    /\ pc = "done"
    /\ Len(built) = 3
    /\ outcomes[1].status = "failed"
    /\ outcomes[2].status = "success"
    /\ outcomes[3].status = "success"
    /\ built[1].transaction.sequenceNumber = built[2].transaction.sequenceNumber
    /\ built[3].transaction.sequenceNumber = built[2].transaction.sequenceNumber + 1

\* a step inside a run: not the call of submitBatch, not its end
InsideRun == pc \in {"loadAccount", "build", "sign", "inFlight"}

\* the step finishes the processing of the current batch
BatchProcessed == Len(outcomes') = Len(outcomes) + 1

\* C29: inside a run the instruction list and the fields of the object do
\* not change, the batches do not change once created, and the results only
\* grow: a step that finishes a batch appends one entry per payment of that
\* batch, in the batch's order, every other step leaves the results alone;
\* the report holds the results as they are at the end.
C29_InputsKeptResultsAppendOnly ==
    /\ [][(InsideRun =>
             /\ instructions' = instructions
             /\ UNCHANGED serviceVars
             /\ pc # "loadAccount" => batches' = batches
             /\ SubSeq(results', 1, Len(results)) = results
             /\ IF BatchProcessed
                THEN /\ Len(results') = Len(results) + Len(batches[batchIdx])
                     /\ \A k \in 1..Len(batches[batchIdx]) :
                           LET entry == results'[Len(results) + k] IN
                           /\ entry.recipient = batches[batchIdx][k].address
                           /\ entry.amount = batches[batchIdx][k].amount
                           /\ entry.asset = batches[batchIdx][k].asset
                ELSE results' = results)]_vars
    /\ [](pc = "done" => report.results = results)

C29_Witness ==
    /\ pc = "done"
    /\ maxOperationsPerTransaction = 2
    /\ Len(instructions) = 3
    /\ Len(batches) = 2
    /\ Len(results) = 3
    /\ results[1].status = "failed"
    /\ results[2].status = "failed"
    /\ results[3].status = "success"
    /\ \A k \in 1..3 : results[k].recipient = instructions[k].address

\* C32: for every bound m >= 1 no batch createBatches returns is empty,
\* every batch but the last holds exactly m payments and the last holds
\* between 1 and m: each batch is a maximal run.
C32_EveryBatchIsAMaximalRun ==
    (ret.done /\ call.fn = "createBatches" /\ call.max >= 1) =>
        \A b \in 1..Len(ret.value) :
            /\ Len(ret.value[b].payments) >= 1
            /\ b < Len(ret.value) => Len(ret.value[b].payments) = call.max
            /\ b = Len(ret.value) => Len(ret.value[b].payments) <= call.max

C32_Witness ==
    /\ ret.done
    /\ call.fn = "createBatches"
    /\ call.max = 2
    /\ Len(ret.value) = 2
    /\ Len(ret.value[1].payments) = 2
    /\ Len(ret.value[2].payments) = 1
    /\ ret.value[1].payments[2] = PaymentB

\* C33: when the account load fails the run is rejected with the value the
\* load threw: no batch has been created, no transaction built or
\* submitted, and no result recorded; a report only ever comes from a run
\* whose account load returned.
C33_LoadFailurePropagates ==
    /\ (pc = "threw" /\ loadedSequence = UnsetNumber) =>
          /\ report.threw
          /\ report.thrown \in Thrown
          /\ report.error = report.thrown.message
          /\ loadCalls = 1
          /\ batches = <<>>
          /\ results = <<>>
          /\ Len(built) = 0
          /\ Len(submitCalls) = 0
          /\ Len(outcomes) = 0
    /\ pc = "done" => loadedSequence \in SequenceValues

C33_Witness ==
    /\ pc = "threw"
    /\ loadedSequence = UnsetNumber
    /\ instructions = <<PaymentA, PaymentB>>
    /\ report.thrown = [isError |-> TRUE, message |-> "Network Error"]
    /\ batches = <<>>

\* C31: for a list of valid instructions and the instance's bound m (1 to
\* 100), the batches createPaymentBatches made for the run are, batch by
\* batch and in order, the payments of the batches createBatches returns
\* for the same list and bound.
C31_ServicePartitionIsTheBatchers ==
    (pc \in {"build", "sign", "inFlight", "done"}) =>
        LET ofBatcher == createBatches(instructions, maxOperationsPerTransaction) IN
        /\ maxOperationsPerTransaction \in 1..MaxOperationsCeiling
        /\ Len(batches) = Len(ofBatcher)
        /\ \A b \in 1..Len(batches) : batches[b] = ofBatcher[b].payments

C31_Witness ==
    /\ pc = "build"
    /\ maxOperationsPerTransaction = 2
    /\ instructions = <<PaymentB, PaymentA, PaymentB>>
    /\ batches = <<<<PaymentB, PaymentA>>, <<PaymentB>>>>
    /\ createBatches(instructions, 2)[2] = [transactionIndex |-> 1, payments |-> <<PaymentB>>]

(***************************************************************************)
(* The run under a ledger whose calls settle                               *)
(***************************************************************************)
\* where the run stands: every step of the run changes it
position == <<pc, batchIdx>>

\* every call of server.loadAccount and server.submitTransaction resolves or
\* rejects, and the code between two awaits runs to the next await
Settling ==
    /\ WF_position(LoadAccountReturns \/ LoadAccountThrows)
    /\ WF_position(BuildTransactionReturns \/ BuildTransactionThrows)
    /\ WF_position(SignThrows \/ SubmitTransactionCall)
    /\ WF_position(ServerThrows \/ ServerResponds)

SpecSettling == Init /\ [][Next]_vars /\ Settling

\* the run has returned its report with every batch processed
Reported ==
    /\ pc = "done"
    /\ Len(outcomes) = Len(batches)
    /\ report.totalTransactions = Len(batches)
    /\ Len(report.results) = Len(instructions)

\* C30 as stated: with settling ledger calls a run on a valid list
\* eventually returns a report with all of its batches processed.
C30_ValidRunReturnsReport ==
    (pc = "loadAccount" /\ instructions \in AcceptedLists) ~> Reported

\* C30: with settling ledger calls a run on a valid list eventually returns
\* a report with all of its batches processed, unless the account load
\* fails, which rejects the run before its first batch; once a batch is
\* being processed the run only moves on to the next step or batch, it
\* neither stops nor returns to idle before the report.
C30_RunEndsUnlessLoadFails ==
    /\ (pc = "loadAccount" /\ instructions \in AcceptedLists)
          ~> (Reported \/ (pc = "threw" /\ loadedSequence = UnsetNumber))
    /\ [][(pc \in {"build", "sign", "inFlight"} =>
             /\ pc' \in {"build", "sign", "inFlight", "done"}
             /\ batchIdx' >= batchIdx
             /\ pc' = "done" => batchIdx = Len(batches))]_vars

C30_Witness ==
    /\ Reported
    /\ instructions \in AcceptedLists
    /\ Len(batches) = 3
    /\ outcomes[1].via = "submitThrew"
    /\ outcomes[2].via = "buildThrew"
    /\ outcomes[3].via = "accepted"

(***************************************************************************)
(* Two activations of submitBatch interleaved by the event loop            *)
(***************************************************************************)
\* the activation that is running: its `this` (the instance it was called
\* on), its locals (lines 48-58) and what the ledger saw of it
activation(id) ==
    [run |-> id,
     this |-> [constructed |-> constructed, keypair |-> keypair, network |-> network,
               maxOperationsPerTransaction |-> maxOperationsPerTransaction,
               server |-> server],
     pc |-> pc, instructions |-> instructions, results |-> results,
     sequenceNumber |-> sequenceNumber, batches |-> batches, batchIdx |-> batchIdx,
     successCount |-> successCount, failCount |-> failCount,
     transaction |-> transaction, report |-> report,
     loadedSequence |-> loadedSequence, loadCalls |-> loadCalls,
     submitCalls |-> submitCalls, built |-> built, outcomes |-> outcomes]

\* the places where an activation gives the thread back: the awaits of
\* lines 52, 62 and 63 (207), and its end
AtAwait == pc \in {"loadAccount", "sign", "inFlight", "done", "threw"}

\* everything of the other activation but its counter comes back
resumeOthers ==
    /\ constructed' = suspended.this.constructed
    /\ keypair' = suspended.this.keypair
    /\ network' = suspended.this.network
    /\ maxOperationsPerTransaction' = suspended.this.maxOperationsPerTransaction
    /\ server' = suspended.this.server
    /\ pc' = suspended.pc
    /\ instructions' = suspended.instructions
    /\ results' = suspended.results
    /\ batches' = suspended.batches
    /\ batchIdx' = suspended.batchIdx
    /\ successCount' = suspended.successCount
    /\ failCount' = suspended.failCount
    /\ transaction' = suspended.transaction
    /\ report' = suspended.report
    /\ loadedSequence' = suspended.loadedSequence
    /\ loadCalls' = suspended.loadCalls
    /\ submitCalls' = suspended.submitCalls
    /\ built' = suspended.built
    /\ outcomes' = suspended.outcomes
    /\ UNCHANGED fnVars

\* mutant: the counter is kept in one place for both activations (a field
\* rather than a local)
ResumeSharingCounter ==
    /\ suspended.run # 0
    /\ AtAwait
    /\ suspended' = activation(3 - suspended.run)
    /\ sequenceNumber' = sequenceNumber
    /\ resumeOthers

\* the running activation waits at an await and the event loop resumes the
\* other one: each has its own `let sequenceNumber` (line 53)
Resume ==
    /\ suspended.run # 0
    /\ AtAwait
    /\ suspended' = activation(3 - suspended.run)
    /\ sequenceNumber' = suspended.sequenceNumber
    /\ resumeOthers

\* the instances the two activations are called on: the same or another one
InterleavedServices ==
    {[constructed |-> "yes", keypair |-> "SVALIDSECRET", network |-> net,
      maxOperationsPerTransaction |-> 1,
      server |-> IF net = "testnet" THEN "https://horizon-testnet.stellar.org"
                 ELSE "https://horizon.stellar.org"] : net \in {"testnet", "mainnet"}}

\* the lists the two activations are given
InterleavedLists == {<<PaymentA, PaymentB>>, <<PaymentB>>}

\* submitBatch has been called twice in a row: both activations wait for
\* their account (line 52)
InitInterleaved ==
    /\ constructed = "yes"
    /\ keypair = "SVALIDSECRET"
    /\ network = "testnet"
    /\ maxOperationsPerTransaction = 1
    /\ server = "https://horizon-testnet.stellar.org"
    /\ pc = "loadAccount"
    /\ instructions \in InterleavedLists
    /\ results = <<>>
    /\ sequenceNumber = UnsetNumber
    /\ batches = <<>>
    /\ batchIdx = 0
    /\ successCount = 0
    /\ failCount = 0
    /\ transaction = UnsetObject
    /\ report = UnsetObject
    /\ loadedSequence = UnsetNumber
    /\ loadCalls = 1
    /\ submitCalls = <<>>
    /\ built = <<>>
    /\ outcomes = <<>>
    /\ call = [fn |-> "none"]
    /\ ret = [done |-> FALSE]
    /\ \E service \in InterleavedServices, instrs \in InterleavedLists :
          suspended = [run |-> 2, this |-> service,
                       pc |-> "loadAccount", instructions |-> instrs, results |-> <<>>,
                       sequenceNumber |-> UnsetNumber, batches |-> <<>>, batchIdx |-> 0,
                       successCount |-> 0, failCount |-> 0,
                       transaction |-> UnsetObject, report |-> UnsetObject,
                       loadedSequence |-> UnsetNumber, loadCalls |-> 1,
                       submitCalls |-> <<>>, built |-> <<>>, outcomes |-> <<>>]

NextInterleaved ==
    \/ LoadAccountReturns
    \/ LoadAccountThrows
    \/ BuildTransactionReturns
    \/ BuildTransactionThrows
    \/ SignThrows
    \/ SubmitTransactionCall
    \/ ServerThrows
    \/ ServerResponds
    \/ Resume

SpecInterleaved == InitInterleaved /\ [][NextInterleaved]_vars

\* the activation with the given number, running or waiting
runOf(r) == IF suspended.run = r THEN suspended ELSE activation(r)

\* the activation has its account and its counter
Started(st) == st.pc \in {"build", "sign", "inFlight", "done"}

\* the batches of the activation that succeeded before batch k
successesOf(st, k) ==
    Cardinality({j \in 1..Len(st.outcomes) : j < k /\ st.outcomes[j].status = "success"})

\* C28: with two activations of submitBatch interleaved, on one instance or
\* on two, the counter of each is the value it loaded plus its own
\* successful batches, its transactions carry its own counter, and the
\* counter changes only in the step in which a batch of its own succeeds.
C28_EachRunOwnsItsCounter ==
    /\ [](\A r \in {1, 2} :
            LET st == runOf(r) IN
            Started(st) =>
               /\ st.sequenceNumber
                     = st.loadedSequence + successesOf(st, Len(st.outcomes) + 1)
               /\ \A b \in 1..Len(st.built) :
                     st.built[b].transaction.sequenceNumber
                        = st.loadedSequence + successesOf(st, st.built[b].batch))
    /\ [][(\A r \in {1, 2} :
             (Started(runOf(r)) /\ runOf(r)'.sequenceNumber # runOf(r).sequenceNumber)
                => /\ suspended.run # r
                   /\ suspended'.run # r
                   /\ pc = "inFlight"
                   /\ Len(outcomes') = Len(outcomes) + 1
                   /\ outcomes'[Len(outcomes')].status = "success"
                   /\ sequenceNumber' = sequenceNumber + 1
                   /\ suspended' = suspended)]_vars

C28_Witness ==
    /\ suspended.run # 0
    /\ suspended.this.network = network
    /\ pc = "done"
    /\ Len(outcomes) = 2
    /\ \A k \in 1..2 : outcomes[k].status = "success"
    /\ loadedSequence = 41
    /\ sequenceNumber = 43
    /\ suspended.pc = "inFlight"
    /\ suspended.loadedSequence = 0
    /\ Len(suspended.outcomes) = 1
    /\ suspended.outcomes[1].status = "success"
    /\ suspended.sequenceNumber = 1

(***************************************************************************)
(* parseAsset applied to bounded inputs                                    *)
(***************************************************************************)
Colon == Punct(":")

\* mutant: no case for 'XLM', every asset string is split
parseAssetSplitOnly(assetString) ==
    LET parts == split(assetString, Colon) IN
    [code |-> charactersOf(parts[1]),
     issuer |-> IF Len(parts) >= 2 THEN charactersOf(parts[2]) ELSE undefined]

\* parseAsset (src/unnamed/part_001 lines 51-64); const [code, issuer] takes
\* the first two pieces of the split, issuer is undefined without a second
parseAsset(assetString) ==
    IF charactersOf(assetString) = "XLM"
    THEN [code |-> "XLM", issuer |-> null]
    ELSE LET parts == split(assetString, Colon) IN
         [code |-> charactersOf(parts[1]),
          issuer |-> IF Len(parts) >= 2 THEN charactersOf(parts[2]) ELSE undefined]

\* the asset of the payment operation (stellar-service.ts lines 175-178)
stellarAsset(asset) ==
    IF asset.issuer = null
    THEN [native |-> TRUE, code |-> "XLM", issuer |-> undefined]
    ELSE [native |-> FALSE, code |-> asset.code, issuer |-> asset.issuer]

\* the units asset strings are made of
AssetUnits == {Word("XLM"), Word("USDC"), Word("GISSUER"), Colon}

AssetStrings == UNION {[1..n -> AssetUnits] : n \in 0..MaxLen}

InitAsset ==
    /\ ServiceAtRest
    /\ ret = [done |-> FALSE]
    /\ suspended = NoRun
    /\ \E assetString \in AssetStrings :
          call = [fn |-> "parseAsset", assetString |-> assetString]

CallParseAsset ==
    /\ call.fn = "parseAsset"
    /\ ~ret.done
    /\ ret' = [done |-> TRUE, value |-> parseAsset(call.assetString),
               operationAsset |-> stellarAsset(parseAsset(call.assetString))]
    /\ UNCHANGED <<serviceVars, runVars, ledgerVars, call, suspended>>

NextAsset == CallParseAsset

SpecAsset == InitAsset /\ [][NextAsset]_vars

\* the asset string passes the validation of an instruction
AcceptedAsset ==
    validatePaymentInstruction([address |-> "GAAA", amount |-> "100",
                                asset |-> charactersOf(call.assetString)]).valid

\* C34: for every asset string validation accepts, 'XLM' is parsed to code
\* 'XLM' with issuer null, any other to the code and the (non-null) issuer
\* on the two sides of its colon, so that code:issuer is the string again;
\* the payment operation gets the native asset exactly for 'XLM'.
C34_ParseAssetKeepsTheAsset ==
    (ret.done /\ call.fn = "parseAsset" /\ AcceptedAsset) =>
        /\ IF charactersOf(call.assetString) = "XLM"
           THEN ret.value = [code |-> "XLM", issuer |-> null]
           ELSE /\ ret.value.issuer \notin {null, undefined, ""}
                /\ ret.value.code # ""
                /\ call.assetString
                      = <<Word(ret.value.code), Colon, Word(ret.value.issuer)>>
                /\ ret.value.code \o ":" \o ret.value.issuer
                      = charactersOf(call.assetString)
        /\ ret.operationAsset.native <=> charactersOf(call.assetString) = "XLM"

C34_Witness ==
    /\ ret.done
    /\ call.fn = "parseAsset"
    /\ AcceptedAsset
    /\ charactersOf(call.assetString) = "XLM:GISSUER"
    /\ ret.value = [code |-> "XLM", issuer |-> "GISSUER"]
    /\ ~ret.operationAsset.native

====
